---- MODULE Spec2Model ----
(***************************************************************************)
(* A model of the PostProcessingGui / GcodeInjector plugin: the text       *)
(* helpers (escaping of the saved settings, the layer / elapsed-time scan, *)
(* the scripts' execute, the recursive overlay) and the controller state   *)
(* the two plugin objects keep over the host's post-processing script list.*)
(*                                                                         *)
(* Text is a sequence of characters.  A character is a one-element string, *)
(* except NL, the newline character.                                       *)
(***************************************************************************)
EXTENDS Integers, Sequences, FiniteSets, TLC

NL == "NL"
BS == "\\"

(***************************************************************************)
(* Python's str operations, on sequences of characters.                    *)
(***************************************************************************)

\* s[i:] for 0 <= i
Drop(s, i) == IF i >= Len(s) THEN <<>> ELSE SubSeq(s, i + 1, Len(s))

\* s[:i]
Take(s, i) == IF i <= 0 THEN <<>> ELSE SubSeq(s, 1, IF i > Len(s) THEN Len(s) ELSE i)

\* s.startswith(p)
StartsWith(s, p) == Len(s) >= Len(p) /\ SubSeq(s, 1, Len(p)) = p

\* s.replace(old, new) for a non-empty old: left to right, occurrences not overlapping
RECURSIVE Replace(_, _, _)
Replace(s, old, new) ==
    IF Len(s) < Len(old) THEN s
    ELSE IF StartsWith(s, old) THEN new \o Replace(Drop(s, Len(old)), old, new)
    ELSE <<Head(s)>> \o Replace(Tail(s), old, new)

\* s.split('\n'): the list of lines, always at least one
RECURSIVE SplitLines(_)
SplitLines(s) ==
    LET RECURSIVE firstNL(_)
        firstNL(i) == IF i > Len(s) THEN 0 ELSE IF s[i] = NL THEN i ELSE firstNL(i + 1)
        k == firstNL(1)
    IN  IF k = 0 THEN <<s>> ELSE <<Take(s, k - 1)>> \o SplitLines(Drop(s, k))

\* '\n'.join(lines)
RECURSIVE JoinLines(_)
JoinLines(lines) ==
    IF Len(lines) = 0 THEN <<>>
    ELSE IF Len(lines) = 1 THEN lines[1]
    ELSE lines[1] \o <<NL>> \o JoinLines(Tail(lines))

\* every text of length at most n over the characters cs
RECURSIVE TextsUpTo(_, _)
TextsUpTo(cs, n) ==
    IF n = 0 THEN {<<>>}
    ELSE LET shorter == TextsUpTo(cs, n - 1)
         IN  shorter \cup {Append(t, c) : t \in shorter, c \in cs}

(***************************************************************************)
(* Saving and restoring the injection settings text                        *)
(* (GcodeInjector.saveInjectionScriptSettings, _restoreInjectionScripts).  *)
(***************************************************************************)
VARIABLES
    settings,       \* the serialised settings of one injection script
    stored,         \* its escaped form, as written to the metadata entry
    restored,       \* the text handed to the parser on restore
    escPc           \* "start", "saved", "restored"

escVars == <<settings, stored, restored, escPc>>

\* the longest settings text tried
MaxSettingsLen == 4

SettingsChars == {BS, "n", NL, "a"}

\* settings.replace('\\\\', r'\\\\').replace('\n', r'\\\n')
EscapeSettings(s) ==
    Replace(Replace(s, <<BS, BS>>, <<BS, BS, BS, BS>>), <<NL>>, <<BS, BS, BS, "n">>)

\* injection_settings_string.replace(r'\\\n', '\n').replace(r'\\\\', '\\\\')
UnescapeSettings(s) ==
    Replace(Replace(s, <<BS, BS, BS, "n">>, <<NL>>), <<BS, BS, BS, BS>>, <<BS, BS>>)

EscInit ==
    /\ settings \in TextsUpTo(SettingsChars, MaxSettingsLen)
    /\ stored = <<>>
    /\ restored = <<>>
    /\ escPc = "start"

EscIdle ==
    /\ settings = <<>>
    /\ stored = <<>>
    /\ restored = <<>>
    /\ escPc = "idle"

\* saveInjectionScriptSettings: the escaped text of one script goes to the metadata
SaveEscaped ==
    /\ escPc = "start"
    /\ stored' = EscapeSettings(settings)
    /\ escPc' = "saved"
    /\ UNCHANGED <<settings, restored>>

\* _restoreInjectionScripts: the stored text is un-escaped before it is parsed
RestoreUnescaped ==
    /\ escPc = "saved"
    /\ restored' = UnescapeSettings(stored)
    /\ escPc' = "restored"
    /\ UNCHANGED <<settings, stored>>

(***************************************************************************)
(* Gcode text: the host's gcode is a list of "clumps", each a text of      *)
(* lines.  Setting values are tagged as Python types them.                 *)
(***************************************************************************)
Digits == <<"0", "1", "2", "3", "4", "5", "6", "7", "8", "9">>
IsDigit(c) == \E i \in 1..10 : Digits[i] = c
DigitVal(c) == (CHOOSE i \in 1..10 : Digits[i] = c) - 1

\* the longest run of digits s starts with (a greedy \d* )
RECURSIVE DigitRun(_)
DigitRun(s) ==
    IF s # <<>> /\ IsDigit(Head(s)) THEN <<Head(s)>> \o DigitRun(Tail(s)) ELSE <<>>

\* the number a text of digits denotes
RECURSIVE IntOfDigits(_)
IntOfDigits(d) ==
    IF d = <<>> THEN 0
    ELSE IntOfDigits(Take(d, Len(d) - 1)) * 10 + DigitVal(d[Len(d)])

\* str(n) for n >= 0
RECURSIVE StrOfNat(_)
StrOfNat(n) ==
    IF n < 10 THEN <<Digits[n + 1]>> ELSE StrOfNat(n \div 10) \o <<Digits[(n % 10) + 1]>>

\* text.strip() of blanks
RECURSIVE StripBlanks(_)
StripBlanks(s) ==
    IF s = <<>> THEN s
    ELSE IF Head(s) = " " THEN StripBlanks(Tail(s))
    ELSE IF s[Len(s)] = " " THEN StripBlanks(Take(s, Len(s) - 1))
    ELSE s

\* int(text): blanks around, an optional sign, then digits only; anything
\* else is a ValueError
IntParse(text) ==
    LET t == StripBlanks(text)
        signed == t # <<>> /\ Head(t) \in {"-", "+"}
        body == IF signed THEN Tail(t) ELSE t
    IN  IF body # <<>> /\ DigitRun(body) = body
        THEN [ok |-> TRUE, n |-> IF signed /\ Head(t) = "-" THEN 0 - IntOfDigits(body)
                                 ELSE IntOfDigits(body)]
        ELSE [ok |-> FALSE, n |-> 0]

\* setting values: an int, a str, or None
IntValue(n) == <<"int", n>>
StrValue(s) == <<"str", s>>
NoneValue == <<"None">>
IsInt(v) == v[1] = "int"
IsStr(v) == v[1] = "str"

LAYER_PREFIX == <<";", "L", "A", "Y", "E", "R", ":">>
TIME_PREFIX == <<";", "T", "I", "M", "E", "_", "E", "L", "A", "P", "S", "E", "D", ":">>

\* re.match(r';LAYER:(\d+)\s*', line): group 1, when the line matches
MatchLayerRegex(line) ==
    LET run == DigitRun(Drop(line, Len(LAYER_PREFIX)))
    IN  IF StartsWith(line, LAYER_PREFIX) /\ run # <<>>
        THEN [matched |-> TRUE, group |-> run]
        ELSE [matched |-> FALSE, group |-> <<>>]

\* re.match(r';TIME_ELAPSED:(\d+\.?\d*)', line): group 1, when the line matches
MatchElapsedRegex(line) ==
    LET after == Drop(line, Len(TIME_PREFIX))
        whole == DigitRun(after)
        rest == Drop(after, Len(whole))
        frac == IF rest # <<>> /\ Head(rest) = "."
                THEN <<".">> \o DigitRun(Tail(rest)) ELSE <<>>
    IN  IF StartsWith(line, TIME_PREFIX) /\ whole # <<>>
        THEN [matched |-> TRUE, group |-> whole \o frac]
        ELSE [matched |-> FALSE, group |-> <<>>]

\* float(text) of a matched elapsed time, in tenths of a second: the texts
\* tried have at most one digit after the point
FloatOf(text) ==
    LET whole == DigitRun(text)
        rest == Drop(text, Len(whole))
        frac == IF Len(rest) >= 2 THEN DigitVal(rest[2]) ELSE 0
    IN  IntOfDigits(whole) * 10 + frac

\* the loop over the lines of one clump, entered with layer_number: what
\* it yields and the layer_number it leaves
RECURSIVE EnumLines(_, _)
EnumLines(lines, layer_number) ==
    IF lines = <<>> THEN [layer_number |-> layer_number, yielded |-> <<>>]
    ELSE LET line == Head(lines)
             lm == MatchLayerRegex(line)
             ln == IF lm.matched THEN IntOfDigits(lm.group) + 1 ELSE layer_number
             tm == MatchElapsedRegex(line)
             rest == EnumLines(Tail(lines), ln)
         IN  [layer_number |-> rest.layer_number,
              yielded |-> (IF tm.matched THEN << <<ln, FloatOf(tm.group)>> >> ELSE <<>>)
                          \o rest.yielded]

\* a clump loop that starts every clump again at layer 0
RECURSIVE EnumClumpsResetting(_, _)
EnumClumpsResetting(gcode, layer_number) ==
    IF gcode = <<>> THEN <<>>
    ELSE EnumLines(SplitLines(Head(gcode)), 0).yielded
         \o EnumClumpsResetting(Tail(gcode), 0)

\* the loop over the clumps
RECURSIVE EnumClumps(_, _)
EnumClumps(gcode, layer_number) ==
    IF gcode = <<>> THEN <<>>
    ELSE LET r == EnumLines(SplitLines(Head(gcode)), layer_number)
         IN  r.yielded \o EnumClumps(Tail(gcode), r.layer_number)

\* PostProcessingGui._enumerateLayerElapsedTime: everything the generator yields
enumerateLayerElapsedTime(gcode) == EnumClumps(gcode, 0)

\* gcode is built from at most this many lines and clump breaks
MaxGcodeItems == 4

ClumpBreak == <<"BREAK">>

GcodeLines ==
    { LAYER_PREFIX \o <<"0">>, LAYER_PREFIX \o <<"1">>,
      TIME_PREFIX \o <<"5">>, TIME_PREFIX \o <<"7", ".", "5">>,
      <<"G", "1">>, LAYER_PREFIX \o <<"1", "x">> }

\* the list of clumps a sequence of lines and clump breaks stands for
RECURSIVE ClumpsOf(_, _)
ClumpsOf(items, lines) ==
    IF items = <<>> THEN <<JoinLines(lines)>>
    ELSE IF Head(items) = ClumpBreak THEN <<JoinLines(lines)>> \o ClumpsOf(Tail(items), <<>>)
    ELSE ClumpsOf(Tail(items), Append(lines, Head(items)))

GcodesUpTo(lineSet, n) == {ClumpsOf(items, <<>>) : items \in TextsUpTo(lineSet \cup {ClumpBreak}, n)}

VARIABLES
    gcode,          \* the gcode of the active build plate, a list of clumps
    yielded,        \* what _enumerateLayerElapsedTime has yielded
    enumPc          \* "start", "done"

enumVars == <<gcode, yielded, enumPc>>

EnumInit ==
    /\ gcode \in GcodesUpTo(GcodeLines, MaxGcodeItems)
    /\ yielded = <<>>
    /\ enumPc = "start"

EnumIdle ==
    /\ gcode = <<>>
    /\ yielded = <<>>
    /\ enumPc = "idle"

\* the generator is run to its end
Enumerate ==
    /\ enumPc = "start"
    /\ yielded' = enumerateLayerElapsedTime(gcode)
    /\ enumPc' = "done"
    /\ UNCHANGED gcode

(***************************************************************************)
(* The shipped scripts' execute (InsertGcodeAtLayer, SwapFilament).        *)
(***************************************************************************)

\* Python's == on setting values: an int never equals a str or None
PyEq(a, b) == a = b

\* list.insert(i, x) for 0 <= i <= len(list)
InsertAt(list, i, x) == Take(list, i) \o <<x>> \o Drop(list, i)

\* the text execute inserts
InsertedGcode(script) ==
    IF script.key = "InsertGcodeAtLayer"
    THEN \* inserted_gcode.replace('\\n', '\n').replace('|', '\n')
         Replace(Replace(script.settings.inserted_gcode[2], <<BS, "n">>, <<NL>>), <<"|">>, <<NL>>)
    ELSE \* f'SWAP DESC={description}\n'
         <<"S", "W", "A", "P", " ", "D", "E", "S", "C", "=">>
             \o script.settings.description[2] \o <<NL>>

\* the loop over the lines of one element, from line i: the position of the
\* first line that marks insert_layer_number, 0 when the loop ends without one
RECURSIVE ScanLayerLines(_, _, _)
ScanLayerLines(lines, i, insert_layer_number) ==
    IF i > Len(lines) THEN 0
    ELSE LET line == lines[i]
             current == IntParse(Drop(line, Len(LAYER_PREFIX)))
         IN  IF /\ StartsWith(line, LAYER_PREFIX)
                /\ current.ok
                /\ PyEq(IntValue(current.n), insert_layer_number)
             THEN i
             ELSE ScanLayerLines(lines, i + 1, insert_layer_number)

\* a loop over the elements that inserts in every element holding the marker
RECURSIVE ExecuteEveryElement(_, _, _)
ExecuteEveryElement(g, layer_index, script) ==
    IF layer_index > Len(g) THEN g
    ELSE LET lines == SplitLines(g[layer_index])
             hit == ScanLayerLines(lines, 1, script.settings.insert_layer_number)
             next == IF hit # 0
                     THEN [g EXCEPT ![layer_index] =
                              JoinLines(InsertAt(lines, hit, InsertedGcode(script)))]
                     ELSE g
         IN  ExecuteEveryElement(next, layer_index + 1, script)

\* the loop over the elements of the gcode, from element layer_index: the
\* list execute returns
RECURSIVE ExecuteFrom(_, _, _)
ExecuteFrom(g, layer_index, script) ==
    IF layer_index > Len(g) THEN g
    ELSE LET lines == SplitLines(g[layer_index])
             hit == ScanLayerLines(lines, 1, script.settings.insert_layer_number)
         IN  IF hit # 0
             THEN [g EXCEPT ![layer_index] =
                      JoinLines(InsertAt(lines, hit, InsertedGcode(script)))]
             ELSE ExecuteFrom(g, layer_index + 1, script)

\* InsertGcodeAtLayer.execute / SwapFilament.execute
execute(script, g) == ExecuteFrom(g, 1, script)

\* the gcode handed to execute is built from at most this many lines and
\* clump breaks
MaxExecItems == 4

ExecLines ==
    { LAYER_PREFIX \o <<"0">>, LAYER_PREFIX \o <<"1">>,
      <<"G", "1">>, LAYER_PREFIX \o <<"1", "x">> }

ExecScripts ==
    {[key |-> "InsertGcodeAtLayer",
      settings |-> [insert_layer_number |-> n, inserted_gcode |-> StrValue(t)]] :
        n \in {IntValue(0), IntValue(1), StrValue(<<"1">>)},
        t \in {<<"M">>, <<"M", "|", "N">>}}
    \cup
    {[key |-> "SwapFilament",
      settings |-> [insert_layer_number |-> n, description |-> StrValue(t)]] :
        n \in {IntValue(0), IntValue(1), StrValue(<<"1">>)},
        t \in {<<>>, <<"r">>}}

VARIABLES
    execScript,     \* the script whose execute is run
    gcodeBefore,    \* the gcode list as it was handed to execute
    execPc          \* "start", "done"

execVars == <<execScript, gcodeBefore, execPc>>

ExecInit ==
    /\ gcode \in GcodesUpTo(ExecLines, MaxExecItems)
    /\ gcodeBefore = gcode
    /\ execScript \in ExecScripts
    /\ execPc = "start"
    /\ yielded = <<>>
    /\ enumPc = "idle"

ExecIdle ==
    /\ execScript = <<>>
    /\ gcodeBefore = <<>>
    /\ execPc = "idle"

\* the host runs the script on the gcode list, which is changed in place
Execute ==
    /\ execPc = "start"
    /\ gcode' = execute(execScript, gcode)
    /\ execPc' = "done"
    /\ UNCHANGED <<execScript, gcodeBefore, yielded, enumPc>>

(***************************************************************************)
(* RecursiveDictOverlay.recursiveDictOverlay.  A JSON document is a leaf   *)
(* [kind |-> "int", v] or a mapping [kind, items] whose kind is the Python *)
(* class, "OrderedDict" (what json.load builds here) or "dict" (the {}     *)
(* default of original.get), and whose items map keys to documents.  The   *)
(* order of the keys is left out.                                          *)
(***************************************************************************)
Leaf(n) == [kind |-> "int", v |-> n]
Mapping(kind, items) == [kind |-> kind, items |-> items]
NoItems == [k \in {} |-> 0]
Raised == [kind |-> "raise"]
IsMapping(doc) == doc.kind \in {"OrderedDict", "dict"}

\* isinstance(value, type(original)): OrderedDict is a subclass of dict
IsInstanceOfTypeOf(value, original) ==
    IF original.kind = "dict" THEN IsMapping(value) ELSE value.kind = original.kind

\* original.get(key, {})
GetOrEmpty(original, key) ==
    IF key \in DOMAIN original.items THEN original.items[key] ELSE Mapping("dict", NoItems)

\* an overlay in the manner of dict.update: every key takes the overlay's value
UpdateOverlay(original, overlay) ==
    Mapping(original.kind,
            [k \in DOMAIN original.items \cup DOMAIN overlay.items |->
                IF k \in DOMAIN overlay.items THEN overlay.items[k] ELSE original.items[k]])

\* recursiveDictOverlay(original, overlay), overlay a mapping: the document
\* returned, or Raised when a key cannot be assigned or looked up (original
\* is not a mapping)
RECURSIVE recursiveDictOverlay(_, _)
recursiveDictOverlay(original, overlay) ==
    IF DOMAIN overlay.items = {} THEN original
    ELSE IF ~ IsMapping(original) THEN Raised
    ELSE LET new == [k \in DOMAIN overlay.items |->
                        IF IsInstanceOfTypeOf(overlay.items[k], original)
                        THEN recursiveDictOverlay(GetOrEmpty(original, k), overlay.items[k])
                        ELSE overlay.items[k]]
         IN  IF \E k \in DOMAIN new : new[k] = Raised THEN Raised
             ELSE Mapping(original.kind,
                          [k \in DOMAIN original.items \cup DOMAIN new |->
                              IF k \in DOMAIN new THEN new[k] ELSE original.items[k]])

\* the deepest nesting of the documents tried
MaxOverlayDepth == 3

\* the JSON documents of nesting depth at most d: key "a" holds nothing, a
\* leaf or a nested document, key "b" nothing or a leaf
RECURSIVE JsonDocs(_, _)
JsonDocs(d, leaf) ==
    LET under == IF d <= 1 THEN {} ELSE JsonDocs(d - 1, leaf)
        choiceA == {<<>>} \cup {<<Leaf(leaf)>>} \cup {<<m>> : m \in under}
        choiceB == {<<>>, <<Leaf(leaf)>>}
    IN  {Mapping("OrderedDict",
                 [k \in (IF a = <<>> THEN {} ELSE {"a"}) \cup (IF b = <<>> THEN {} ELSE {"b"})
                    |-> IF k = "a" THEN a[1] ELSE b[1]]) : a \in choiceA, b \in choiceB}

VARIABLES
    original,       \* the script's own setting data
    overlay,        \* the overlay document loaded from the JSON file
    setting_data,   \* what recursiveDictOverlay returned
    overlayPc       \* "start", "done"

overlayVars == <<original, overlay, setting_data, overlayPc>>

OverlayInit ==
    /\ original \in JsonDocs(MaxOverlayDepth, 1)
    /\ overlay \in JsonDocs(MaxOverlayDepth, 2)
    /\ setting_data = NoItems
    /\ overlayPc = "start"

OverlayIdle ==
    /\ original = NoItems
    /\ overlay = NoItems
    /\ setting_data = NoItems
    /\ overlayPc = "idle"

\* _loadInjectionScript overlays the JSON settings onto the script's settings
LoadOverlay ==
    /\ overlayPc = "start"
    /\ setting_data' = recursiveDictOverlay(original, overlay)
    /\ overlayPc' = "done"
    /\ UNCHANGED <<original, overlay>>

(***************************************************************************)
(* The host's post-processing scripts and the two models shown to the user *)
(* (PostProcessingGui.activeScriptsModel, GcodeInjector.activeInjections-  *)
(* Model).  A script is [key, name, layer_number_key, settings]: the key   *)
(* and name of its class, the value of the 'layer_number_key' setting that *)
(* marks an injection (NoKey when the script has no such setting) and its  *)
(* setting values.                                                         *)
(***************************************************************************)
NoKey == "None"
LAYER_SETTING == "insert_layer_number"

ScriptName(key) ==
    IF key = "InsertGcodeAtLayer" THEN "Insert gcode at layer"
    ELSE IF key = "SwapFilament" THEN "Swap Filament"
    ELSE key

Script(key, layer_number_key, layer) ==
    [key |-> key, name |-> ScriptName(key), layer_number_key |-> layer_number_key,
     settings |-> [insert_layer_number |-> layer]]

\* script.getSettingValueByKey(key), for the key of a setting value
getSettingValueByKey(script, key) ==
    IF key \in DOMAIN script.settings THEN script.settings[key] ELSE NoneValue

\* characters in the order of their code points, as far as they are used in
\* setting values
CharOrder == <<" ", "+", "-", "0", "1", "2", "3", "4", "5", "6", "7", "8", "9", "x">>
CharCode(c) == CHOOSE k \in 1..Len(CharOrder) : CharOrder[k] = c

\* str < str
RECURSIVE TextLess(_, _)
TextLess(a, b) ==
    IF b = <<>> THEN FALSE
    ELSE IF a = <<>> THEN TRUE
    ELSE IF Head(a) = Head(b) THEN TextLess(Tail(a), Tail(b))
    ELSE CharCode(Head(a)) < CharCode(Head(b))

\* Python can order two values only when both are ints or both are strs
Comparable(a, b) == (IsInt(a) /\ IsInt(b)) \/ (IsStr(a) /\ IsStr(b))
PyLess(a, b) == IF IsInt(a) THEN a[2] < b[2] ELSE TextLess(a[2], b[2])

\* e put into the sorted list after every entry that is not greater
RECURSIVE InsertByLayer(_, _)
InsertByLayer(sortedList, e) ==
    IF sortedList = <<>> THEN <<e>>
    ELSE IF PyLess(e.layer_number, Head(sortedList).layer_number) THEN <<e>> \o sortedList
    ELSE <<Head(sortedList)>> \o InsertByLayer(Tail(sortedList), e)

RECURSIVE StableSort(_)
StableSort(model) ==
    IF model = <<>> THEN <<>>
    ELSE InsertByLayer(StableSort(Take(model, Len(model) - 1)), model[Len(model)])

\* what a getter gives: the list it returns, or the TypeError it raises
Returned(entries) == [raised |-> FALSE, entries |-> entries]
TypeErrorRaised == [raised |-> TRUE, entries |-> <<>>]

\* sorted(model, key=lambda x: x['layer_number']): a stable sort, which
\* raises TypeError as soon as two keys cannot be ordered
SortedByLayerNumber(model) ==
    IF \A p, q \in 1..Len(model) :
          p # q => Comparable(model[p].layer_number, model[q].layer_number)
    THEN Returned(StableSort(model))
    ELSE TypeErrorRaised

\* int(value): an int as it is, a str parsed, ValueError for another str,
\* TypeError for None
IntOf(value) ==
    IF IsInt(value) THEN [ok |-> TRUE, error |-> "", n |-> value[2]]
    ELSE IF IsStr(value)
    THEN IF IntParse(value[2]).ok
         THEN [ok |-> TRUE, error |-> "", n |-> IntParse(value[2]).n]
         ELSE [ok |-> FALSE, error |-> "ValueError", n |-> 0]
    ELSE [ok |-> FALSE, error |-> "TypeError", n |-> 0]

VARIABLES
    script_list,            \* the host's _script_list
    script_table,           \* PostProcessingGui._script_table
    active_scripts_model,   \* activeScriptsModel as the panel last read it
    active_injections_model \* activeInjectionsModel as the panel last read it

\* a check that takes every script whose key is in the table
CriticalSettingsIgnored(script, script_data) == TRUE

\* the critical settings of table entry script_data all have their value in
\* the script
CriticalSettingsMatch(script, script_data) ==
    \A k \in DOMAIN script_data.critical_settings :
        PyEq(getSettingValueByKey(script, k), script_data.critical_settings[k])

\* the entries script index adds for the table entries from t on, unless
\* int() raises a TypeError
RECURSIVE EntriesOfScript(_, _)
EntriesOfScript(index, t) ==
    IF t > Len(script_table) THEN Returned(<<>>)
    ELSE LET script == script_list[index]
             script_data == script_table[t]
             layer == IntOf(getSettingValueByKey(script, script_data.layer_number_setting))
             rest == EntriesOfScript(index, t + 1)
         IN  IF script_data.script_key # script.key \/ ~ CriticalSettingsMatch(script, script_data)
             THEN rest
             ELSE IF layer.error = "TypeError" \/ rest.raised THEN TypeErrorRaised
             ELSE IF layer.error = "ValueError" THEN rest
             ELSE Returned(<< [script_key |-> script_data.script_key,
                               script_name |-> script_data.script_name,
                               layer_number |-> IntValue(layer.n),
                               script_index |-> index - 1] >> \o rest.entries)

\* the model before it is sorted, from script index on
RECURSIVE ActiveScriptsFrom(_)
ActiveScriptsFrom(index) ==
    IF index > Len(script_list) THEN Returned(<<>>)
    ELSE LET here == EntriesOfScript(index, 1)
             rest == ActiveScriptsFrom(index + 1)
         IN  IF here.raised \/ rest.raised THEN TypeErrorRaised
             ELSE Returned(here.entries \o rest.entries)

\* PostProcessingGui.activeScriptsModel
activeScriptsModel ==
    IF ActiveScriptsFrom(1).raised THEN TypeErrorRaised
    ELSE SortedByLayerNumber(ActiveScriptsFrom(1).entries)

\* GcodeInjector.injectionIndexes, as positions 1.. of script_list in order
RECURSIVE InjectionPositionsFrom(_, _)
InjectionPositionsFrom(list, index) ==
    IF index > Len(list) THEN <<>>
    ELSE (IF list[index].layer_number_key # NoKey THEN <<index>> ELSE <<>>)
         \o InjectionPositionsFrom(list, index + 1)

\* GcodeInjector.injectionIndexes: Python indexes, from 0
injectionIndexes ==
    LET pos == InjectionPositionsFrom(script_list, 1)
    IN  [k \in 1..Len(pos) |-> pos[k] - 1]

\* the injections model before it is sorted
ActiveInjectionsUnsorted ==
    LET pos == InjectionPositionsFrom(script_list, 1)
    IN  [k \in 1..Len(pos) |->
            [layer_number |-> getSettingValueByKey(script_list[pos[k]],
                                                   script_list[pos[k]].layer_number_key),
             script_name |-> script_list[pos[k]].name]]

\* GcodeInjector.activeInjectionsModel
activeInjectionsModel == SortedByLayerNumber(ActiveInjectionsUnsorted)

\* the host list tried holds at most this many scripts, with int layer
\* numbers up to MaxModelLayer
MaxModelScripts == 2
MaxModelLayer == 2

ModelLayerValues ==
    {IntValue(n) : n \in 1..MaxModelLayer}
    \cup {StrValue(<<"1", "0">>), StrValue(<<"9">>), StrValue(<<"x">>)}

ModelScripts ==
    {Script(key, lnk, layer) : key \in {"InsertGcodeAtLayer", "SwapFilament"},
                               lnk \in {NoKey, LAYER_SETTING},
                               layer \in ModelLayerValues}

TableEntry(key) ==
    [script_key |-> key, script_name |-> ScriptName(key),
     critical_settings |-> [k \in {} |-> 0], layer_number_setting |-> LAYER_SETTING]

\* script tables as _initializeScriptTable leaves them, sorted by script name:
\* one entry per shipped script, or two JSON files naming the same script
ScriptTables ==
    { <<TableEntry("InsertGcodeAtLayer"), TableEntry("SwapFilament")>>,
      <<TableEntry("InsertGcodeAtLayer"), TableEntry("InsertGcodeAtLayer"),
        TableEntry("SwapFilament")>> }

modelVars == <<script_list, script_table, active_scripts_model, active_injections_model>>

ModelsInit ==
    /\ script_list \in TextsUpTo(ModelScripts, MaxModelScripts)
    /\ script_table \in ScriptTables
    /\ active_scripts_model = Returned(<<>>)
    /\ active_injections_model = Returned(<<>>)

ModelsIdle ==
    /\ script_list = <<>>
    /\ script_table = <<>>
    /\ active_scripts_model = Returned(<<>>)
    /\ active_injections_model = Returned(<<>>)

\* the panels read both models
ReadActiveModels ==
    /\ active_scripts_model' = activeScriptsModel
    /\ active_injections_model' = activeInjectionsModel
    /\ UNCHANGED <<script_list, script_table>>

(***************************************************************************)
(* GcodeInjector: the injections in the host's script list, the selected   *)
(* injection script, and what the global container stack's metadata keeps. *)
(* A script is an injection when its 'layer_number_key' setting has a      *)
(* value; every script of the host's list has setting definitions of its   *)
(* own, so marking one script leaves the others as they are.  The setting  *)
(* values of the injection master scripts other than the layer number are  *)
(* not followed: the master-scripts metadata entry is kept as the list of  *)
(* the section names written to it.                                        *)
(***************************************************************************)
VARIABLES
    host_selected_script_index, \* PostProcessingPlugin._selected_script_index
    loaded_scripts,             \* the keys of PostProcessingPlugin._loaded_scripts, in order
    application_stack,          \* Application.getGlobalContainerStack(): "None" or "Stack"
    global_container_stack,     \* GcodeInjector._global_container_stack
    metaData,                   \* the metadata of the stack
    injection_scripts,          \* the keys of GcodeInjector._injection_scripts, in order
    selected_injection_index,   \* GcodeInjector._selected_injection_index
    main_window_connected,      \* mainWindowChanged is connected to _onMainWindowChanged
    last,                       \* the last call: what it was given, found and emitted
    restore_connected,          \* the stack's metaDataChanged is connected to _restoreInjectionScripts
    host_restore_connected,     \* ... and to the host's _restoreScriptInforFromMetadata
    metadata_writes             \* the metadata writes of the last call and the handler calls they made

injectorVars ==
    <<host_selected_script_index, loaded_scripts, application_stack,
      global_container_stack, metaData, injection_scripts,
      selected_injection_index, main_window_connected, last,
      restore_connected, host_restore_connected, metadata_writes>>

connVars == <<restore_connected, host_restore_connected, metadata_writes>>

SELECTED_ENTRY == "gcodeinjector_selected_injection_script"
INDEXES_ENTRY == "gcodeinjector_injection_indexes"
MASTER_ENTRY == "gcodeinjector_injection_master_scripts"

\* a stack's metadata: the entries present and their values
NoMetaData == [keys |-> {}, selected |-> "", indexes |-> <<>>, master |-> <<>>]

\* the JSON overlays shipped with the plugin, one for each shipped script
availableJsonOverlayIds == {"InsertGcodeAtLayer", "SwapFilament"}

\* list(self._injection_scripts.keys())
availableInjectionNames == injection_scripts

\* list[i] of Python: a negative index counts from the end
PyIndexOk(list, i) == 0 - Len(list) <= i /\ i < Len(list)
PyItem(list, i) == IF i >= 0 THEN list[i + 1] ELSE list[Len(list) + i + 1]

\* list.index(x) finds nothing but the first item (not what the code does)
FirstItemIndex(list, x) == IF list # <<>> /\ list[1] = x THEN 0 ELSE -1

\* list.index(x): the first position (from 0) holding x; -1 stands for ValueError
ListIndex(list, x) ==
    IF \E k \in 1..Len(list) : list[k] = x
    THEN (CHOOSE k \in 1..Len(list) :
             list[k] = x /\ \A j \in 1..(k - 1) : list[j] # x) - 1
    ELSE -1

\* text.split(',')
RECURSIVE SplitCommas(_)
SplitCommas(s) ==
    LET RECURSIVE firstComma(_)
        firstComma(i) ==
            IF i > Len(s) THEN 0 ELSE IF s[i] = "," THEN i ELSE firstComma(i + 1)
        k == firstComma(1)
    IN  IF k = 0 THEN <<s>> ELSE <<Take(s, k - 1)>> \o SplitCommas(Drop(s, k))

\* ','.join(texts)
RECURSIVE JoinCommas(_)
JoinCommas(texts) ==
    IF Len(texts) = 0 THEN <<>>
    ELSE IF Len(texts) = 1 THEN texts[1]
    ELSE texts[1] \o <<",">> \o JoinCommas(Tail(texts))

\* whether the script at position index of list is an injection for layer_value
IsInjectionFor(list, index, layer_value) ==
    /\ list[index].layer_number_key # NoKey
    /\ PyEq(getSettingValueByKey(list[index], list[index].layer_number_key), layer_value)

\* _addInjection: the new script, made from the selected master script
NewInjection(selected_injection_name, layer_number) ==
    Script(selected_injection_name, LAYER_SETTING, IntValue(layer_number))

\* _addInjection: every script is appended (not what the code does)
AppendedScriptList(list, new_script, index) == Append(list, new_script)

\* _addInjection: the for ... else over the host's list, from position index
RECURSIVE AddedScriptList(_, _, _)
AddedScriptList(list, new_script, index) ==
    IF index > Len(list) THEN Append(list, new_script)
    ELSE IF IsInjectionFor(list, index, new_script.settings[LAYER_SETTING])
         THEN [list EXCEPT ![index] = new_script]
         ELSE AddedScriptList(list, new_script, index + 1)

\* _removeInjection: the first script with that layer value is popped,
\* an injection or not (not what the code does)
RemovedAnyScript(list, layer_value, index) ==
    LET S == {k \in 1..Len(list) : list[k].settings[LAYER_SETTING] = layer_value}
    IN  IF S = {} THEN list
        ELSE LET k == CHOOSE k \in S : \A j \in S : k <= j
             IN  Take(list, k - 1) \o Drop(list, k)

\* _removeInjection: the loop over the host's list, from position index
RECURSIVE RemovedScriptList(_, _, _)
RemovedScriptList(list, layer_value, index) ==
    IF index > Len(list) THEN list
    ELSE IF IsInjectionFor(list, index, layer_value)
         THEN Take(list, index - 1) \o Drop(list, index)
         ELSE RemovedScriptList(list, layer_value, index + 1)

\* the text _saveInjectionIndexes writes for the host's list
IndexesText(list) ==
    LET pos == InjectionPositionsFrom(list, 1)
    IN  JoinCommas([k \in 1..Len(pos) |-> StrOfNat(pos[k] - 1)])

\* _saveToGlobalContainerStack(metadata_entry, setting)
SavedToGlobalContainerStack(meta, metadata_entry, setting) ==
    LET held == [meta EXCEPT !.keys = @ \cup {metadata_entry}]
    IN  IF metadata_entry = SELECTED_ENTRY THEN [held EXCEPT !.selected = setting]
        ELSE IF metadata_entry = INDEXES_ENTRY THEN [held EXCEPT !.indexes = setting]
        ELSE [held EXCEPT !.master = setting]

\* _saveToGlobalContainerStack: the setMetaDataEntry calls made for an entry
MetaDataWrites(meta, metadata_entry) == IF metadata_entry \in meta.keys THEN 1 ELSE 2

\* a save that leaves the handlers connected while it writes
ConnectedAsBefore(connected) == connected

\* _saveToGlobalContainerStack: whether a handler is connected while the
\* entry is written, after both disconnect calls
ConnectedDuringSave(connected) == FALSE

\* the writes of a call and the calls of _restoreInjectionScripts and of the
\* host's handler that their metaDataChanged signals made; the host's handler
\* listens to the application's stack
MetaDataWritten(writes) ==
    [writes |-> writes,
     restored |-> IF ConnectedDuringSave(restore_connected) THEN writes ELSE 0,
     host_restored |-> IF /\ ConnectedDuringSave(host_restore_connected)
                          /\ global_container_stack = application_stack
                       THEN writes ELSE 0]

NoWrites == [writes |-> 0, restored |-> 0, host_restored |-> 0]

\* _saveInjectionIndexes
SavedInjectionIndexes(stack, meta, list) ==
    IF stack = "None" THEN meta
    ELSE SavedToGlobalContainerStack(meta, INDEXES_ENTRY, IndexesText(list))

\* _initializeInjectionScripts: the keys of _injection_scripts afterwards;
\* a key the dictionary holds already keeps its place
RECURSIVE InitializedInjectionScripts(_, _)
InitializedInjectionScripts(scripts, loaded) ==
    IF loaded = <<>> THEN scripts
    ELSE InitializedInjectionScripts(
             IF /\ Head(loaded) \in availableJsonOverlayIds
                /\ \A k \in 1..Len(scripts) : scripts[k] # Head(loaded)
             THEN Append(scripts, Head(loaded)) ELSE scripts,
             Tail(loaded))

\* [int(index_str) for index_str in indexes_str.split(',')]
ParsedIndexes(indexes_str) ==
    LET parts == SplitCommas(indexes_str)
    IN  [ok |-> \A k \in 1..Len(parts) : IntParse(parts[k]).ok,
         indexes |-> [k \in 1..Len(parts) |-> IntParse(parts[k]).n]]

\* _restoreInjectionScripts: whether the script at a stored index is marked
Markable(list, index, scripts) ==
    /\ PyIndexOk(list, index)
    /\ \E k \in 1..Len(scripts) : scripts[k] = PyItem(list, index).key

\* _restoreInjectionScripts: the scripts at the stored indexes get the
\* 'layer_number_key' setting of their master script
RECURSIVE MarkedScriptList(_, _, _)
MarkedScriptList(list, indexes, scripts) ==
    IF indexes = <<>> THEN list
    ELSE LET index == Head(indexes)
             at == IF index >= 0 THEN index + 1 ELSE Len(list) + index + 1
         IN  MarkedScriptList(
                 IF Markable(list, index, scripts)
                 THEN [list EXCEPT ![at].layer_number_key = LAYER_SETTING]
                 ELSE list,
                 Tail(indexes), scripts)

\* _restoreInjectionScripts on the plugin's stack: what it leaves and emits
RestoredInjectionScripts(stack, meta, scripts, loaded, list) ==
    LET names == InitializedInjectionScripts(scripts, loaded)
        untouched == [scripts |-> names, index |-> 0, list |-> list,
                      signals |-> {}, raised |-> FALSE]
    IN  IF stack = "None" THEN untouched
        ELSE
        LET found == ListIndex(names, meta.selected)
            selected ==
                IF SELECTED_ENTRY \in meta.keys
                THEN [untouched EXCEPT
                         !.index = IF found = -1 THEN 0 ELSE found,
                         !.signals = {"_selected_injection_index_changed"}]
                ELSE untouched
            parsed == ParsedIndexes(meta.indexes)
        IN  IF INDEXES_ENTRY \in meta.keys /\ ~parsed.ok
            THEN [selected EXCEPT !.raised = TRUE]
            ELSE
            LET marked ==
                    IF INDEXES_ENTRY \in meta.keys
                    THEN [selected EXCEPT
                             !.list = MarkedScriptList(list, parsed.indexes, names),
                             !.signals =
                                 @ \cup IF \E k \in 1..Len(parsed.indexes) :
                                               Markable(list, parsed.indexes[k], names)
                                        THEN {"_injection_scripts_changed"} ELSE {}]
                    ELSE selected
            IN  IF MASTER_ENTRY \in meta.keys
                THEN [marked EXCEPT !.signals = @ \cup {"_active_injections_changed"}]
                ELSE marked

\* what `last` keeps of a call
Called(op, layer, raised, signals) ==
    [op |-> op, layer |-> layer, raised |-> raised, signals |-> signals,
     before |-> script_list, hostIndexBefore |-> host_selected_script_index,
     indexBefore |-> selected_injection_index, prevOp |-> last.op,
     returned |-> <<>>]

NotCalled ==
    [op |-> "none", layer |-> 0, raised |-> FALSE, signals |-> {},
     before |-> <<>>, hostIndexBefore |-> -1, indexBefore |-> 0, prevOp |-> "none",
     returned |-> <<>>]

\* the host's list is followed up to this many scripts, the layers up to
\* MaxInjectionLayer
MaxInjections == 3
MaxInjectionLayer == 2

\* GcodeInjector._addInjection(layer_number)
AddInjection(layer_number) ==
    /\ UNCHANGED <<loaded_scripts, application_stack,
                   global_container_stack, injection_scripts,
                   selected_injection_index, main_window_connected>>
    /\ IF ~PyIndexOk(availableInjectionNames, selected_injection_index)
       THEN \* availableInjectionNames[...] raises IndexError
            /\ last' = Called("add", layer_number, TRUE, {})
            /\ metadata_writes' = NoWrites
            /\ UNCHANGED <<script_list, host_selected_script_index, metaData,
                           restore_connected, host_restore_connected>>
       ELSE LET name == PyItem(availableInjectionNames, selected_injection_index)
                new_script == NewInjection(name, layer_number)
                added == AddedScriptList(script_list, new_script, 1)
                appended == Len(added) > Len(script_list)
            IN  /\ Len(added) <= MaxInjections
                /\ script_list' = added
                /\ host_selected_script_index' =
                       IF appended THEN Len(added) - 1 ELSE host_selected_script_index
                /\ IF global_container_stack = "None"
                   THEN \* _saveInjectionIndexes returns at once
                        /\ last' = Called("add", layer_number, FALSE,
                                          (IF appended THEN {"scriptListChanged"} ELSE {})
                                          \cup {"_active_injections_changed"})
                        /\ metadata_writes' = NoWrites
                        /\ UNCHANGED <<metaData, restore_connected, host_restore_connected>>
                   ELSE IF application_stack = "None"
                   THEN \* the host plugin's stack is None: AttributeError at
                        \* its disconnect, the plugin's handler left disconnected
                        /\ last' = Called("add", layer_number, TRUE,
                                          IF appended THEN {"scriptListChanged"} ELSE {})
                        /\ restore_connected' = FALSE
                        /\ metadata_writes' = NoWrites
                        /\ UNCHANGED <<metaData, host_restore_connected>>
                   ELSE /\ metaData' = SavedInjectionIndexes(global_container_stack,
                                                             metaData, added)
                        /\ metadata_writes' =
                               MetaDataWritten(MetaDataWrites(metaData, INDEXES_ENTRY))
                        /\ restore_connected' = TRUE
                        /\ host_restore_connected' = TRUE
                        /\ last' = Called("add", layer_number, FALSE,
                                          (IF appended THEN {"scriptListChanged"} ELSE {})
                                          \cup {"_active_injections_changed"})

\* GcodeInjector._removeInjection(layer_number)
RemoveInjection(layer_number) ==
    LET removed == RemovedScriptList(script_list, IntValue(layer_number), 1)
        popped == Len(removed) < Len(script_list)
    IN  /\ script_list' = removed
        /\ host_selected_script_index' =
               IF popped /\ Len(removed) - 1 < host_selected_script_index
               THEN Len(removed) - 1 ELSE host_selected_script_index
        /\ last' = Called("remove", layer_number, FALSE,
                          IF popped
                          THEN {"scriptListChanged", "selectedIndexChanged",
                                "_active_injections_changed"}
                          ELSE {})
        /\ metadata_writes' = NoWrites
        /\ UNCHANGED <<metaData, loaded_scripts, application_stack,
                       global_container_stack, injection_scripts,
                       selected_injection_index, main_window_connected,
                       restore_connected, host_restore_connected>>

\* GcodeInjector.setSelectedInjectionIndex(index)
SetSelectedInjectionIndex(index) ==
    /\ selected_injection_index' = index
    /\ last' = Called("select", 0, FALSE, {"_selected_injection_index_changed"})
    /\ metadata_writes' = NoWrites
    /\ UNCHANGED <<script_list, host_selected_script_index, loaded_scripts,
                   application_stack, global_container_stack, metaData,
                   injection_scripts, main_window_connected,
                   restore_connected, host_restore_connected>>

\* GcodeInjector.saveInjectionScriptSettings
SaveInjectionScriptSettings ==
    /\ IF global_container_stack = "None"
       THEN /\ last' = Called("save", 0, FALSE, {})
            /\ metadata_writes' = NoWrites
            /\ UNCHANGED <<metaData, restore_connected, host_restore_connected>>
       ELSE IF ~PyIndexOk(availableInjectionNames, selected_injection_index)
       THEN \* availableInjectionNames[...] raises IndexError
            /\ last' = Called("save", 0, TRUE, {})
            /\ metadata_writes' = NoWrites
            /\ UNCHANGED <<metaData, restore_connected, host_restore_connected>>
       ELSE IF application_stack = "None"
       THEN \* the host plugin's stack is None: AttributeError at its
            \* disconnect, the plugin's handler left disconnected
            /\ last' = Called("save", 0, TRUE, {})
            /\ restore_connected' = FALSE
            /\ metadata_writes' = NoWrites
            /\ UNCHANGED <<metaData, host_restore_connected>>
       ELSE LET selected_saved ==
                    SavedToGlobalContainerStack(
                        metaData, SELECTED_ENTRY,
                        PyItem(availableInjectionNames, selected_injection_index))
            IN  /\ metaData' = SavedToGlobalContainerStack(selected_saved, MASTER_ENTRY,
                                                           injection_scripts)
                /\ metadata_writes' =
                       MetaDataWritten(MetaDataWrites(metaData, SELECTED_ENTRY)
                                       + MetaDataWrites(selected_saved, MASTER_ENTRY))
                /\ restore_connected' = TRUE
                /\ host_restore_connected' = TRUE
                /\ last' = Called("save", 0, FALSE, {})
    /\ UNCHANGED <<script_list, host_selected_script_index, loaded_scripts,
                   application_stack, global_container_stack, injection_scripts,
                   selected_injection_index, main_window_connected>>

\* GcodeInjector._restoreInjectionScripts, run with the plugin's stack being stack
Restore(op, stack) ==
    LET r == RestoredInjectionScripts(stack, metaData, injection_scripts,
                                      loaded_scripts, script_list)
    IN  /\ injection_scripts' = r.scripts
        /\ selected_injection_index' = r.index
        /\ script_list' = r.list
        /\ last' = Called(op, 0, r.raised, r.signals)
        /\ metadata_writes' = NoWrites
        /\ UNCHANGED <<host_selected_script_index, loaded_scripts,
                       application_stack, metaData, host_restore_connected>>

\* GcodeInjector._restoreInjectionScripts, as the stack's metaDataChanged calls it
RestoreInjectionScripts ==
    /\ ~main_window_connected
    /\ global_container_stack # "None"
    /\ restore_connected
    /\ Restore("restore", global_container_stack)
    /\ UNCHANGED <<global_container_stack, main_window_connected, restore_connected>>

\* GcodeInjector._onMainWindowChanged
OnMainWindowChanged ==
    /\ main_window_connected
    /\ main_window_connected' = FALSE
    /\ global_container_stack' = application_stack
    /\ restore_connected' = (application_stack # "None")
    /\ Restore("mainWindowChanged", application_stack)

InjectorIdle ==
    /\ host_selected_script_index = -1
    /\ loaded_scripts = <<>>
    /\ global_container_stack = "None"
    /\ metaData = NoMetaData
    /\ injection_scripts = <<>>
    /\ selected_injection_index = 0
    /\ main_window_connected = TRUE
    /\ last = NotCalled
    /\ restore_connected = FALSE
    /\ host_restore_connected = FALSE
    /\ metadata_writes = NoWrites

ViewsIdle ==
    /\ script_table = <<>>
    /\ active_scripts_model = Returned(<<>>)
    /\ active_injections_model = Returned(<<>>)

\* the scripts the host's list holds when the injection panel comes up: added
\* in the host's own dialog, or injections of an earlier session whose layer
\* number the host restored from its metadata
MaxInitialScripts == 2
InitialScripts ==
    {Script("InsertGcodeAtLayer", NoKey, IntValue(1)),
     Script("InsertGcodeAtLayer", LAYER_SETTING, IntValue(1)),
     Script("SwapFilament", LAYER_SETTING, IntValue(1)),
     Script("InsertGcodeAtLayer", LAYER_SETTING, StrValue(<<"1">>))}

\* the plugin after _onMainWindowChanged, both shipped scripts loaded, the
\* indexes entry as the last _saveInjectionIndexes left it
InjectionsInit ==
    /\ script_list \in TextsUpTo(InitialScripts, MaxInitialScripts)
    /\ host_selected_script_index \in
           IF script_list = <<>> THEN {-1} ELSE 0..(Len(script_list) - 1)
    /\ loaded_scripts = <<"InsertGcodeAtLayer", "SwapFilament">>
    /\ application_stack \in {"None", "Stack"}
    /\ global_container_stack = application_stack
    /\ metaData =
           IF application_stack = "None" \/ InjectionPositionsFrom(script_list, 1) = <<>>
           THEN NoMetaData
           ELSE SavedInjectionIndexes(application_stack, NoMetaData, script_list)
    /\ injection_scripts = loaded_scripts
    /\ selected_injection_index \in 0..(Len(injection_scripts) - 1)
    /\ main_window_connected = FALSE
    /\ last = NotCalled
    /\ restore_connected = (application_stack # "None")
    /\ host_restore_connected = (application_stack # "None")
    /\ metadata_writes = NoWrites

\* the scripts the host may have loaded, and what a stack's metadata may hold
\* from an earlier session
MaxStoredScripts == 1
LoadedScripts ==
    { <<"InsertGcodeAtLayer", "SwapFilament">>,
      <<"SwapFilament", "InsertGcodeAtLayer">>,
      <<"PauseAtHeight", "SwapFilament">> }

StoredMetaData ==
    { [keys |-> ks,
       selected |-> IF SELECTED_ENTRY \in ks THEN name ELSE "",
       indexes |-> IF INDEXES_ENTRY \in ks THEN <<"0">> ELSE <<>>,
       master |-> IF MASTER_ENTRY \in ks THEN <<"InsertGcodeAtLayer", "SwapFilament">>
                  ELSE <<>>] :
        ks \in SUBSET {SELECTED_ENTRY, INDEXES_ENTRY, MASTER_ENTRY},
        name \in {"InsertGcodeAtLayer", "SwapFilament", "TweakAtZ"} }

\* the plugin after construction
SelectionInit ==
    /\ script_list \in
           TextsUpTo({Script("InsertGcodeAtLayer", NoKey, StrValue(<<"1">>)),
                      Script("PauseAtHeight", NoKey, NoneValue)}, MaxStoredScripts)
    /\ host_selected_script_index = Len(script_list) - 1
    /\ loaded_scripts \in LoadedScripts
    /\ application_stack \in {"None", "Stack"}
    /\ metaData \in IF application_stack = "None" THEN {NoMetaData} ELSE StoredMetaData
    /\ global_container_stack = "None"
    /\ injection_scripts = <<>>
    /\ selected_injection_index = 0
    /\ main_window_connected = TRUE
    /\ last = NotCalled
    /\ restore_connected = FALSE
    /\ host_restore_connected = (application_stack # "None")
    /\ metadata_writes = NoWrites

(***************************************************************************)
(* PostProcessingGui: the script selected in the script table and the      *)
(* script key the global container stack's metadata keeps of it.  The      *)
(* application may be closed and started again: the plugin is constructed  *)
(* anew, the stack and its metadata stay.                                  *)
(***************************************************************************)
VARIABLES
    json_script_table,           \* the table the plugin's JSON files give
    selected_script_index,       \* PostProcessingGui._selected_script_index
    tempScript,                  \* PostProcessingGui._tempScript
    gui_global_container_stack,  \* PostProcessingGui._global_container_stack
    gui_metaData,                \* the stack's metadata entry named _metaDataId
    gui_main_window_connected,   \* mainWindowChanged is connected to _onMainWindowChanged
    gui_last,                    \* the last call and whether it raised
    saved_script                 \* the index selected when the settings were last saved

guiVars ==
    <<json_script_table, selected_script_index, tempScript,
      gui_global_container_stack, gui_metaData, gui_main_window_connected,
      gui_last, saved_script>>

\* a metadata entry: getMetaDataEntry gives None when it is not present
NoEntry == [present |-> FALSE, value |-> "None"]
Entry(value) == [present |-> TRUE, value |-> value]

NoScript == [key |-> "None", layer |-> NoneValue]

\* a temporary script whose layer number is the view's layer index itself
TempScriptAtViewLayer(script_data, current_layer) ==
    [key |-> script_data.script_key, layer |-> IntValue(current_layer)]

\* setSelectedScriptIndex: the temporary script of a table entry, its layer
\* number setting at the layer after the current one
TempScript(script_data, current_layer) ==
    [key |-> script_data.script_key, layer |-> IntValue(current_layer + 1)]

\* _loadPluginSettings: the loop over the script table from position index
\* (from 1), giving the Python index of the first entry with the stored key, or 0
RECURSIVE LoadedScriptIndex(_, _, _)
LoadedScriptIndex(table, selected_script_key, index) ==
    IF index > Len(table) THEN 0
    ELSE IF table[index].script_key = selected_script_key THEN index - 1
    ELSE LoadedScriptIndex(table, selected_script_key, index + 1)

GuiCalled(op, raised) == [op |-> op, raised |-> raised]

NothingSaved == [saved |-> FALSE, index |-> 0]

\* the SimulationView's current layer is followed up to this one
MaxCurrentLayer == 1

\* PostProcessingGui.__init__, when the application is started again
GuiConstruct ==
    /\ ~gui_main_window_connected
    /\ script_table' = <<>>
    /\ selected_script_index' = 0
    /\ tempScript' = NoScript
    /\ gui_global_container_stack' = "None"
    /\ gui_main_window_connected' = TRUE
    /\ gui_last' = GuiCalled("init", FALSE)
    /\ UNCHANGED <<json_script_table, gui_metaData, saved_script, application_stack>>

\* PostProcessingGui.setSelectedScriptIndex(index) on table, the
\* SimulationView being at current_layer
SelectedScript(table, index, current_layer) ==
    IF PyIndexOk(table, index)
    THEN [raised |-> FALSE, tempScript |-> TempScript(PyItem(table, index), current_layer)]
    ELSE \* self._script_table[...] raises IndexError
         [raised |-> TRUE, tempScript |-> tempScript]

\* PostProcessingGui.setSelectedScriptIndex(index)
SetSelectedScriptIndex(index, current_layer) ==
    /\ ~gui_main_window_connected
    /\ selected_script_index' = index
    /\ tempScript' = SelectedScript(script_table, index, current_layer).tempScript
    /\ gui_last' = GuiCalled("select", SelectedScript(script_table, index, current_layer).raised)
    /\ UNCHANGED <<script_table, json_script_table, gui_global_container_stack,
                   gui_metaData, gui_main_window_connected, saved_script,
                   application_stack>>

\* PostProcessingGui.savePluginSettings
SavePluginSettings ==
    /\ ~gui_main_window_connected
    /\ IF gui_global_container_stack = "None"
       THEN /\ gui_last' = GuiCalled("save", FALSE)
            /\ UNCHANGED <<gui_metaData, saved_script>>
       ELSE IF ~PyIndexOk(script_table, selected_script_index)
       THEN \* self._script_table[...] raises IndexError
            /\ gui_last' = GuiCalled("save", TRUE)
            /\ UNCHANGED <<gui_metaData, saved_script>>
       ELSE /\ gui_metaData' =
                   Entry(PyItem(script_table, selected_script_index).script_key)
            /\ saved_script' = [saved |-> TRUE, index |-> selected_script_index]
            /\ gui_last' = GuiCalled("save", FALSE)
    /\ UNCHANGED <<script_table, json_script_table, selected_script_index, tempScript,
                   gui_global_container_stack, gui_main_window_connected,
                   application_stack>>

\* PostProcessingGui._onMainWindowChanged: the script table is read and
\* _loadPluginSettings selects the entry of the stored script key
GuiOnMainWindowChanged(current_layer) ==
    /\ gui_main_window_connected
    /\ gui_main_window_connected' = FALSE
    /\ gui_global_container_stack' = application_stack
    /\ IF application_stack = "None"
       THEN \* None has no propertyChanged: AttributeError
            /\ gui_last' = GuiCalled("mainWindowChanged", TRUE)
            /\ UNCHANGED <<script_table, selected_script_index, tempScript>>
       ELSE LET index == LoadedScriptIndex(json_script_table, gui_metaData.value, 1)
                selected == SelectedScript(json_script_table, index, current_layer)
            IN  /\ script_table' = json_script_table
                /\ selected_script_index' = index
                /\ tempScript' = selected.tempScript
                /\ gui_last' = GuiCalled("mainWindowChanged", selected.raised)
    /\ UNCHANGED <<json_script_table, gui_metaData, saved_script, application_stack>>

GuiIdle ==
    /\ json_script_table = <<>>
    /\ selected_script_index = 0
    /\ tempScript = NoScript
    /\ gui_global_container_stack = "None"
    /\ gui_metaData = NoEntry
    /\ gui_main_window_connected = TRUE
    /\ gui_last = GuiCalled("init", FALSE)
    /\ saved_script = NothingSaved

\* the plugin after construction; the stack may keep a script key of an
\* earlier session
GuiInit ==
    /\ json_script_table \in ScriptTables
    /\ script_table = <<>>
    /\ selected_script_index = 0
    /\ tempScript = NoScript
    /\ application_stack \in {"None", "Stack"}
    /\ gui_global_container_stack = "None"
    /\ gui_metaData \in
           IF application_stack = "None" THEN {NoEntry}
           ELSE {NoEntry, Entry("InsertGcodeAtLayer"), Entry("SwapFilament"),
                 Entry("TweakAtZ")}
    /\ gui_main_window_connected = TRUE
    /\ gui_last = GuiCalled("init", FALSE)
    /\ saved_script = NothingSaved

(***************************************************************************)
(* The panels in the preview: the active view and the SimulationView's    *)
(* activity and current layer, the add-script button and its menu, and    *)
(* the buttons of the active scripts.  The buttons are offered as the     *)
(* plugin's property showAddScriptButton says; the active view, the       *)
(* activity and the layer change whenever the host changes them.          *)
(* The scripts of the host's list are Python objects: temp_positions      *)
(* holds the positions of the list whose element is the very object       *)
(* _tempScript refers to.                                                  *)
(***************************************************************************)
VARIABLES
    active_view,            \* the name of getController().getActiveView()
    activity,               \* SimulationView.getActivity()
    current_layer_num,      \* SimulationView.getCurrentLayer()
    add_script_menu_shown,  \* _addScriptMenu.show() was called
    temp_positions,         \* positions of script_list holding the _tempScript object
    pending_view_layer,     \* the view's layer when _tempScript got its layer number
    panel_last              \* the last call of a panel operation

panelVars ==
    <<active_view, activity, current_layer_num, add_script_menu_shown,
      temp_positions, pending_view_layer, panel_last>>

\* the attributes of the object getActiveView() returns: None when there is
\* no active view, a view without getActivity such as the SolidView, the
\* SimulationView, another view that has an activity query, and an object
\* that has the query and no name
ViewAttributes(view) ==
    IF view = "None" THEN {}
    ELSE IF view = "SolidView" THEN {"name"}
    ELSE IF view \in {"SimulationView", "ActivityView"} THEN {"name", "getActivity"}
    ELSE {"getActivity"}

\* what an expression gives: its value, or the exception it raises
Evaluated(value) == [raised |-> "", state |-> value]
RaisedError(error) == [raised |-> error, state |-> FALSE]

\* getActiveView().getActivity()
GetActivity ==
    IF "getActivity" \in ViewAttributes(active_view) THEN Evaluated(activity)
    ELSE RaisedError("AttributeError")

\* getActiveView().name == 'SimulationView'
NameIsSimulationView ==
    IF "name" \in ViewAttributes(active_view)
    THEN Evaluated(active_view = "SimulationView")
    ELSE RaisedError("AttributeError")

\* a getter that lets every exception pass
ExceptNothing(result) == result

\* try: state = ... except AttributeError: state = False
ExceptAttributeError(result) ==
    IF result.raised = "AttributeError" THEN Evaluated(FALSE) ELSE result

\* getActiveView().getActivity() in its try block: views other than the
\* SimulationView have no getActivity, the AttributeError gives False
ActiveViewActivity == ExceptAttributeError(GetActivity).state

\* PostProcessingGui.showAddScriptButton
showAddScriptButton == ActiveViewActivity

PanelCalled(op, can_add, layer, signals, changed) ==
    [op |-> op, can_add |-> can_add, layer |-> layer, signals |-> signals,
     changed |-> changed]

\* the host's list is followed up to MaxPanelScripts scripts
MaxPanelScripts == 2

\* the script object a temporary script is, once it is in the host's list
ScriptOf(temp) == Script(temp.key, NoKey, temp.layer)

\* setProperty(layer_number_setting, 'value', layer_number) on the
\* _tempScript object: every element of the list that is this object
\* shows the new value
WithLayerOfTemp(list, positions, layer_number) ==
    [p \in 1..Len(list) |->
        IF p \in positions
        THEN [list[p] EXCEPT !.settings = [insert_layer_number |-> IntValue(layer_number)]]
        ELSE list[p]]

\* the positions of the _tempScript object after list.pop(script_index),
\* position being script_index + 1
PositionsAfterPop(positions, position) ==
    {p \in positions : p < position} \cup {p - 1 : p \in {q \in positions : q > position}}

\* the host's selected index after a pop left len scripts
IndexAfterPop(len, index) == IF len - 1 < index THEN len - 1 ELSE index

\* what onActiveScriptButtonLeftClicked passes to setLayer
LayerOfButton(layer_number) == layer_number - 1

\* the controller's activeViewChanged: _onActivityChanged only emits the
\* notify signals of the panels' properties
ActiveViewChanged(view) ==
    /\ active_view # view
    /\ active_view' = view
    /\ panel_last' = PanelCalled("activeViewChanged", ActiveViewActivity, 0, {}, FALSE)
    /\ UNCHANGED <<activity, current_layer_num, add_script_menu_shown,
                   temp_positions, pending_view_layer>>

\* the SimulationView's activityChanged, as the scene is sliced or changed
ActivityChanged(state) ==
    /\ activity # state
    /\ activity' = state
    /\ panel_last' = PanelCalled("activityChanged", ActiveViewActivity, 0, {}, FALSE)
    /\ UNCHANGED <<active_view, current_layer_num, add_script_menu_shown,
                   temp_positions, pending_view_layer>>

\* the user moves the SimulationView's layer slider
LayerChanged(layer) ==
    /\ current_layer_num # layer
    /\ current_layer_num' = layer
    /\ panel_last' = PanelCalled("layerChanged", ActiveViewActivity, layer, {}, FALSE)
    /\ UNCHANGED <<active_view, activity, add_script_menu_shown,
                   temp_positions, pending_view_layer>>

\* PostProcessingGui.setSelectedScriptIndex(index), from the add-script menu
SelectScript(index) ==
    /\ add_script_menu_shown
    /\ SetSelectedScriptIndex(index, current_layer_num)
    /\ LET raised == SelectedScript(script_table, index, current_layer_num).raised
       IN  /\ temp_positions' = IF raised THEN temp_positions ELSE {}
           /\ pending_view_layer' =
                  IF raised THEN pending_view_layer ELSE current_layer_num
           /\ panel_last' = PanelCalled("select", ActiveViewActivity,
                                        current_layer_num, {}, FALSE)
    /\ UNCHANGED <<active_view, activity, current_layer_num, add_script_menu_shown>>

\* PostProcessingGui.onAddScriptButtonLeftClicked, the button being shown
OnAddScriptButtonLeftClicked ==
    /\ showAddScriptButton
    /\ IF ~PyIndexOk(script_table, selected_script_index) \/ tempScript = NoScript
       THEN \* IndexError, or None has no _stack: AttributeError
            /\ gui_last' = GuiCalled("addScriptButton", TRUE)
            /\ panel_last' = PanelCalled("addScriptButton", ActiveViewActivity,
                                         current_layer_num, {}, FALSE)
            /\ UNCHANGED <<tempScript, script_list, pending_view_layer,
                           add_script_menu_shown>>
       ELSE /\ tempScript' = [tempScript EXCEPT !.layer = IntValue(current_layer_num + 1)]
            /\ script_list' = WithLayerOfTemp(script_list, temp_positions,
                                              current_layer_num + 1)
            /\ pending_view_layer' = current_layer_num
            /\ add_script_menu_shown' = TRUE
            /\ gui_last' = GuiCalled("addScriptButton", FALSE)
            /\ panel_last' = PanelCalled("addScriptButton", ActiveViewActivity,
                                         current_layer_num, {},
                                         script_list' # script_list)
    /\ UNCHANGED <<active_view, activity, current_layer_num, temp_positions,
                   script_table, json_script_table, selected_script_index,
                   gui_global_container_stack, gui_metaData,
                   gui_main_window_connected, saved_script, application_stack,
                   host_selected_script_index>>

\* addScript without its last statement
KeptTempScript == [raised |-> TRUE, tempScript |-> tempScript]

\* the new temporary script addScript ends with, or the old one kept when
\* setSelectedScriptIndex raises
ReplacedTempScript == SelectedScript(script_table, selected_script_index, current_layer_num)

\* PostProcessingGui.addScript, from the add-script menu
AddScript ==
    /\ add_script_menu_shown
    /\ Len(script_list) < MaxPanelScripts
    /\ IF tempScript = NoScript
       THEN \* None has no _stack: AttributeError
            /\ gui_last' = GuiCalled("addScript", TRUE)
            /\ panel_last' = PanelCalled("addScript", ActiveViewActivity,
                                         pending_view_layer, {}, FALSE)
            /\ UNCHANGED <<tempScript, script_list, host_selected_script_index,
                           temp_positions, pending_view_layer>>
       ELSE LET replaced == ReplacedTempScript
            IN  /\ script_list' = Append(script_list, ScriptOf(tempScript))
                /\ host_selected_script_index' = Len(script_list)
                /\ tempScript' = replaced.tempScript
                /\ temp_positions' =
                       IF replaced.raised
                       THEN temp_positions \cup {Len(script_list) + 1}
                       ELSE {}
                /\ pending_view_layer' =
                       IF replaced.raised THEN pending_view_layer ELSE current_layer_num
                /\ gui_last' = GuiCalled("addScript", replaced.raised)
                /\ panel_last' = PanelCalled("addScript", ActiveViewActivity,
                                             pending_view_layer,
                                             {"scriptListChanged"}, TRUE)
    /\ UNCHANGED <<active_view, activity, current_layer_num, add_script_menu_shown,
                   script_table, json_script_table, selected_script_index,
                   gui_global_container_stack, gui_metaData,
                   gui_main_window_connected, saved_script, application_stack>>

\* PostProcessingGui._removeScript(script_index), as
\* onActiveScriptButtonCenterClicked calls it for an entry of the model
RemoveScript(script_index) ==
    /\ script_list' = [p \in 1..(Len(script_list) - 1) |->
                          IF p <= script_index THEN script_list[p]
                          ELSE script_list[p + 1]]
    /\ host_selected_script_index' =
           IndexAfterPop(Len(script_list) - 1, host_selected_script_index)
    /\ temp_positions' = PositionsAfterPop(temp_positions, script_index + 1)
    /\ gui_last' = GuiCalled("removeScript", FALSE)
    /\ panel_last' = PanelCalled("removeScript", ActiveViewActivity, 0,
                                 {"scriptListChanged", "selectedIndexChanged"}, TRUE)
    /\ UNCHANGED <<active_view, activity, current_layer_num, add_script_menu_shown,
                   pending_view_layer, tempScript,
                   script_table, json_script_table, selected_script_index,
                   gui_global_container_stack, gui_metaData,
                   gui_main_window_connected, saved_script, application_stack>>

\* PostProcessingGui.onActiveScriptButtonLeftClicked(layer_number)
OnActiveScriptButtonLeftClicked(layer_number) ==
    /\ current_layer_num' = LayerOfButton(layer_number)
    /\ panel_last' = PanelCalled("activeScriptButton", ActiveViewActivity,
                                 layer_number, {}, FALSE)
    /\ UNCHANGED <<active_view, activity, add_script_menu_shown, temp_positions,
                   pending_view_layer>>

PanelIdle ==
    /\ active_view = "SolidView"
    /\ activity = FALSE
    /\ current_layer_num = 0
    /\ add_script_menu_shown = FALSE
    /\ temp_positions = {}
    /\ pending_view_layer = 0
    /\ panel_last = PanelCalled("none", FALSE, 0, {}, FALSE)

\* both plugins after their _onMainWindowChanged, a stack being present: the
\* first entry of the script table selected, the host's list empty
PreviewInit ==
    /\ PanelIdle
    /\ json_script_table = <<TableEntry("InsertGcodeAtLayer"), TableEntry("SwapFilament")>>
    /\ script_table = json_script_table
    /\ selected_script_index = 0
    /\ tempScript = TempScript(script_table[1], current_layer_num)
    /\ application_stack = "Stack"
    /\ gui_global_container_stack = application_stack
    /\ gui_metaData = NoEntry
    /\ gui_main_window_connected = FALSE
    /\ gui_last = GuiCalled("mainWindowChanged", FALSE)
    /\ saved_script = NothingSaved
    /\ script_list = <<>>
    /\ active_scripts_model = Returned(<<>>)
    /\ active_injections_model = Returned(<<>>)
    /\ host_selected_script_index = -1
    /\ loaded_scripts = <<"InsertGcodeAtLayer", "SwapFilament">>
    /\ global_container_stack = application_stack
    /\ metaData = NoMetaData
    /\ injection_scripts = loaded_scripts
    /\ selected_injection_index = 0
    /\ main_window_connected = FALSE
    /\ last = NotCalled
    /\ restore_connected = TRUE
    /\ host_restore_connected = TRUE
    /\ metadata_writes = NoWrites

(***************************************************************************)
(* The application's global container stack is changed (another printer   *)
(* is activated).  The application tells the handlers connected to its    *)
(* globalContainerStackChanged signal.                                     *)
(***************************************************************************)

\* the handlers the two plugins connect to globalContainerStackChanged:
\* __init__ and _onMainWindowChanged connect mainWindowChanged, metaDataChanged,
\* propertyChanged, activityChanged, activeViewChanged, writeStarted and
\* scriptListChanged, and nothing else
StackChangedHandlers == {}

\* Application.setGlobalContainerStack(stack): the stack is replaced and the
\* connected handlers run; _onGlobalContainerStackChanged would take the new
\* stack as the plugin's.  The host plugin follows the application's stack
\* with its own handler.
GlobalContainerStackChanged(stack) ==
    /\ application_stack # stack
    /\ application_stack' = stack
    /\ global_container_stack' =
           IF "GcodeInjector._onGlobalContainerStackChanged" \in StackChangedHandlers
           THEN stack ELSE global_container_stack
    /\ gui_global_container_stack' =
           IF "PostProcessingGui._onGlobalContainerStackChanged" \in StackChangedHandlers
           THEN stack ELSE gui_global_container_stack
    /\ host_restore_connected' = (stack # "None")
    /\ UNCHANGED <<host_selected_script_index, loaded_scripts, metaData,
                   injection_scripts, selected_injection_index,
                   main_window_connected, last, restore_connected,
                   metadata_writes, json_script_table,
                   selected_script_index, tempScript, gui_metaData,
                   gui_main_window_connected, gui_last, saved_script>>

(***************************************************************************)
(* A gcode write starts: PostProcessingGui._onWriteStarted builds the      *)
(* message that tells when the active scripts will be reached, and the     *)
(* host runs the scripts of its list on the gcode.  Times are kept in      *)
(* tenths of a second; the clock time of a message line is kept as the     *)
(* total elapsed time it is computed from.                                 *)
(***************************************************************************)
VARIABLES
    gcode_present,  \* scene.gcode_dict holds gcode for the active build plate
    message,        \* the Message shown, if any
    write_pc        \* "idle", "start", "estimated", "done"

writeVars == <<gcode_present, message, write_pc>>

NoMessage == [shown |-> FALSE, lines |-> <<>>]

\* active_scripts_data[layer_number] of the dict comprehension over the
\* model's entries from position p on: a later entry of the same layer
\* number replaces an earlier one
RECURSIVE ActiveScriptsData(_, _, _, _)
ActiveScriptsData(entries, p, layer_number, found) ==
    IF p > Len(entries) THEN found
    ELSE ActiveScriptsData(entries, p + 1, layer_number,
             IF entries[p].layer_number = IntValue(layer_number)
             THEN [present |-> TRUE, script_name |-> entries[p].script_name]
             ELSE found)

\* a loop that takes every marker the generator yields as the start of the
\* next section, listed or not
RECURSIVE MessageLinesPerLayer(_, _, _, _, _)
MessageLinesPerLayer(entries, layers, i, layer_start_time, total_elapsed_time) ==
    IF i > Len(layers) THEN <<>>
    ELSE LET layer_number == layers[i][1]
             elapsed_time == layers[i][2]
             data == ActiveScriptsData(entries, 1, layer_number,
                                       [present |-> FALSE, script_name |-> ""])
             section_elapsed_time == elapsed_time - layer_start_time
         IN  IF data.present
             THEN << [script_name |-> data.script_name,
                      section |-> section_elapsed_time,
                      total |-> total_elapsed_time + section_elapsed_time] >>
                  \o MessageLinesPerLayer(entries, layers, i + 1, elapsed_time,
                                          total_elapsed_time + section_elapsed_time)
             ELSE MessageLinesPerLayer(entries, layers, i + 1, elapsed_time,
                                       total_elapsed_time)

\* the loop of _onWriteStarted over what the generator yields, from item i
RECURSIVE MessageLines(_, _, _, _, _)
MessageLines(entries, layers, i, layer_start_time, total_elapsed_time) ==
    IF i > Len(layers) THEN <<>>
    ELSE LET layer_number == layers[i][1]
             elapsed_time == layers[i][2]
             data == ActiveScriptsData(entries, 1, layer_number,
                                       [present |-> FALSE, script_name |-> ""])
             section_elapsed_time == elapsed_time - layer_start_time
         IN  IF data.present
             THEN << [script_name |-> data.script_name,
                      section |-> section_elapsed_time,
                      total |-> total_elapsed_time + section_elapsed_time] >>
                  \o MessageLines(entries, layers, i + 1, elapsed_time,
                                  total_elapsed_time + section_elapsed_time)
             ELSE MessageLines(entries, layers, i + 1, layer_start_time,
                               total_elapsed_time)

\* the message _onWriteStarted shows for the model's entries and the gcode
WriteStartedMessage(entries, present, g) ==
    IF entries = <<>> \/ ~present THEN NoMessage
    ELSE [shown |-> TRUE,
          lines |-> MessageLines(entries, enumerateLayerElapsedTime(g), 1, 0, 0)]

\* PostProcessingGui._onWriteStarted
OnWriteStarted ==
    /\ write_pc = "start"
    /\ write_pc' = "estimated"
    /\ message' = IF activeScriptsModel.raised THEN message
                  ELSE WriteStartedMessage(activeScriptsModel.entries,
                                           gcode_present, gcode)
    /\ UNCHANGED <<gcode_present, gcode, script_list, script_table>>

\* a script of the host's list with the settings its execute reads
ExecutableScript(script) ==
    IF script.key = "InsertGcodeAtLayer"
    THEN [key |-> script.key,
          settings |-> [insert_layer_number |-> script.settings.insert_layer_number,
                        inserted_gcode |-> StrValue(<<"M", "6", "0", "0">>)]]
    ELSE [key |-> script.key,
          settings |-> [insert_layer_number |-> script.settings.insert_layer_number,
                        description |-> StrValue(<<"r">>)]]

\* the scripts of the list from position p on, run one after the other
RECURSIVE ExecutedScripts(_, _, _)
ExecutedScripts(list, p, g) ==
    IF p > Len(list) THEN g
    ELSE ExecutedScripts(list, p + 1, execute(ExecutableScript(list[p]), g))

\* the host runs execute of every script of its list on the gcode
ExecuteScripts ==
    /\ write_pc = "estimated"
    /\ gcode_present
    /\ write_pc' = "done"
    /\ gcodeBefore' = gcode
    /\ gcode' = ExecutedScripts(script_list, 1, gcode)
    /\ UNCHANGED <<gcode_present, message, script_list, script_table>>

\* gcode of up to MaxBlocks layers, the host's list of up to MaxWriteScripts
\* scripts
MaxBlocks == 2
MaxWriteScripts == 2

\* the lines of the blocks ';LAYER:k' .. ';LAYER:n-1', each ending with one
\* ';TIME_ELAPSED:' line
RECURSIVE BlockLines(_, _)
BlockLines(k, n) ==
    IF k >= n THEN <<>>
    ELSE << LAYER_PREFIX \o StrOfNat(k), <<"G", "1">>,
            TIME_PREFIX \o StrOfNat(5 * (k + 1)) >> \o BlockLines(k + 1, n)

\* the same blocks, one clump each
RECURSIVE BlockClumps(_, _)
BlockClumps(k, n) ==
    IF k >= n THEN <<>>
    ELSE <<JoinLines(BlockLines(k, k + 1))>> \o BlockClumps(k + 1, n)

\* gcode of n layers: a start clump and one clump per layer, or everything
\* in one clump
BlockGcodes ==
    { << <<"G", "2", "8">> >> \o BlockClumps(0, n) : n \in 0..MaxBlocks }
    \cup { << JoinLines(<< <<"G", "2", "8">> >> \o BlockLines(0, n)) >> : n \in 0..MaxBlocks }

\* scripts added in the preview of a print of up to MaxBlocks layers
WriteScripts ==
    {Script(key, NoKey, IntValue(layer)) :
        key \in {"InsertGcodeAtLayer", "SwapFilament"}, layer \in 1..MaxBlocks}

WriteIdle ==
    /\ gcode_present = FALSE
    /\ message = NoMessage
    /\ write_pc = "idle"

WriteInit ==
    /\ script_list \in TextsUpTo(WriteScripts, MaxWriteScripts)
    /\ script_table = <<TableEntry("InsertGcodeAtLayer"), TableEntry("SwapFilament")>>
    /\ active_scripts_model = Returned(<<>>)
    /\ active_injections_model = Returned(<<>>)
    /\ gcode \in BlockGcodes
    /\ yielded = <<>>
    /\ enumPc = "idle"
    /\ gcodeBefore = gcode
    /\ execScript = <<>>
    /\ execPc = "idle"
    /\ gcode_present \in BOOLEAN
    /\ message = NoMessage
    /\ write_pc = "start"

(***************************************************************************)
(* The active scripts model over script tables whose entries name critical *)
(* settings: overlay files may expose one host script under several names, *)
(* each for one value of a setting ('inserted_gcode' of InsertGcodeAtLayer *)
(* here).                                                                  *)
(***************************************************************************)
MaxActiveScripts == 2
MaxActiveLayer == 1

M600 == StrValue(<<"M", "6", "0", "0">>)
M0 == StrValue(<<"M", "0">>)

\* an InsertGcodeAtLayer script with both of its settings
ScriptWithGcode(layer, inserted) ==
    [Script("InsertGcodeAtLayer", NoKey, layer)
        EXCEPT !.settings = [insert_layer_number |-> layer, inserted_gcode |-> inserted]]

ActiveLayerValues ==
    {IntValue(n) : n \in 1..MaxActiveLayer}
    \cup {StrValue(<<"1", "0">>), StrValue(<<"x">>)}

ActiveScripts ==
    {ScriptWithGcode(layer, inserted) : layer \in ActiveLayerValues, inserted \in {M600, M0}}
    \cup {Script("SwapFilament", NoKey, layer) : layer \in ActiveLayerValues}

\* a table entry that asks for inserted_gcode to have one value
CriticalEntry(key, name, inserted) ==
    [script_key |-> key, script_name |-> name,
     critical_settings |-> [inserted_gcode |-> inserted],
     layer_number_setting |-> LAYER_SETTING]

\* script tables sorted by script name, with and without an entry that
\* takes InsertGcodeAtLayer whatever its gcode
CriticalScriptTables ==
    { << CriticalEntry("InsertGcodeAtLayer", "Filament Change", M600),
         CriticalEntry("InsertGcodeAtLayer", "Pause", M0),
         TableEntry("SwapFilament") >>,
      << CriticalEntry("InsertGcodeAtLayer", "Filament Change", M600),
         TableEntry("InsertGcodeAtLayer"),
         CriticalEntry("InsertGcodeAtLayer", "Pause", M0),
         TableEntry("SwapFilament") >> }

ActiveInit ==
    /\ script_list \in TextsUpTo(ActiveScripts, MaxActiveScripts)
    /\ script_table \in CriticalScriptTables
    /\ active_scripts_model = Returned(<<>>)
    /\ active_injections_model = Returned(<<>>)

(***************************************************************************)
(* The active scripts model over scripts whose layer number setting holds  *)
(* an int, text that int() rejects (other text, the empty text), or no     *)
(* value at all (getSettingValueByKey gives None).                         *)
(***************************************************************************)
MaxLayerlessScripts == 2

LayerlessValues ==
    {IntValue(1), IntValue(2), StrValue(<<"x">>), StrValue(<<>>), NoneValue}

LayerlessScripts ==
    {Script(key, NoKey, layer) : key \in {"InsertGcodeAtLayer", "SwapFilament"},
                                 layer \in LayerlessValues}

LayerlessInit ==
    /\ script_list \in TextsUpTo(LayerlessScripts, MaxLayerlessScripts)
    /\ script_table = <<TableEntry("InsertGcodeAtLayer"), TableEntry("SwapFilament")>>
    /\ active_scripts_model = Returned(<<>>)
    /\ active_injections_model = Returned(<<>>)

(***************************************************************************)
(* The panels read the properties that depend on the active view.  What a  *)
(* read gave is kept in panel_last: the value in can_add, 'raised' among   *)
(* the signals when the getter raised.                                     *)
(***************************************************************************)
PropertyRead(op, result) ==
    PanelCalled(op, result.state, 0, IF result.raised # "" THEN {"raised"} ELSE {}, FALSE)

\* PostProcessingGui.showAddScriptButton, read by the panel
ReadShowAddScriptButton ==
    /\ panel_last' = PropertyRead("showAddScriptButton", ExceptAttributeError(GetActivity))
    /\ UNCHANGED <<active_view, activity, current_layer_num, add_script_menu_shown,
                   temp_positions, pending_view_layer>>

\* GcodeInjector.canAddInjections
ReadCanAddInjections ==
    /\ panel_last' = PropertyRead("canAddInjections", ExceptAttributeError(GetActivity))
    /\ UNCHANGED <<active_view, activity, current_layer_num, add_script_menu_shown,
                   temp_positions, pending_view_layer>>

\* GcodeInjector.showInjectionPanel
ReadShowInjectionPanel ==
    /\ panel_last' = PropertyRead("showInjectionPanel",
                                  ExceptAttributeError(NameIsSimulationView))
    /\ UNCHANGED <<active_view, activity, current_layer_num, add_script_menu_shown,
                   temp_positions, pending_view_layer>>

\* the objects the controller's active view can be
ActiveViews == {"None", "SolidView", "SimulationView", "ActivityView", "NamelessView"}

\* the application before a view is active
ViewInit ==
    /\ active_view = "None"
    /\ activity = FALSE
    /\ current_layer_num = 0
    /\ add_script_menu_shown = FALSE
    /\ temp_positions = {}
    /\ pending_view_layer = 0
    /\ panel_last = PanelCalled("none", FALSE, 0, {}, FALSE)

(***************************************************************************)
(* The identifiers of the selected script, as the settings panels read     *)
(* them.  An identifier is the pair of its kind and the script it belongs  *)
(* to, the empty string is the empty sequence; what a read returned is     *)
(* kept in the field 'returned' of last and gui_last.                      *)
(***************************************************************************)
EmptyString == <<>>
NameOf(script_name) == <<"name", script_name>>
DefinitionIdOf(script_name) == <<"definition", script_name>>
StackIdOf(script_name) == <<"stack", script_name>>

\* what a getter's try block gives: the value, or the exception raised
Got(value) == [error |-> "", value |-> value]
Failed(error) == [error |-> error, value |-> EmptyString]

\* self.availableInjectionNames[self._selected_injection_index]
SelectedInjectionItem ==
    IF PyIndexOk(availableInjectionNames, selected_injection_index)
    THEN Got(PyItem(availableInjectionNames, selected_injection_index))
    ELSE Failed("IndexError")

\* except <error>: id = ''
ExceptError(result, error) ==
    IF result.error = error THEN Got(EmptyString) ELSE result

\* GcodeInjector.selectedInjectionName
selectedInjectionName ==
    ExceptError(IF SelectedInjectionItem.error = "" THEN Got(NameOf(SelectedInjectionItem.value))
                ELSE SelectedInjectionItem,
                "IndexError")

\* GcodeInjector.selectedDefinitionId: the scripts of _injection_scripts are
\* initialised Script objects, getDefinitionId does not fail
selectedDefinitionId ==
    ExceptError(IF SelectedInjectionItem.error = ""
                THEN Got(DefinitionIdOf(SelectedInjectionItem.value))
                ELSE SelectedInjectionItem,
                "AttributeError")

\* GcodeInjector.selectedStackId
selectedStackId ==
    ExceptError(IF SelectedInjectionItem.error = ""
                THEN Got(StackIdOf(SelectedInjectionItem.value))
                ELSE SelectedInjectionItem,
                "AttributeError")

\* PostProcessingGui.selectedDefinitionId: None has no getDefinitionId
GuiSelectedDefinitionId ==
    ExceptError(IF tempScript = NoScript THEN Failed("AttributeError")
                ELSE Got(DefinitionIdOf(tempScript.key)),
                "AttributeError")

\* PostProcessingGui.selectedStackId
GuiSelectedStackId ==
    ExceptError(IF tempScript = NoScript THEN Failed("AttributeError")
                ELSE Got(StackIdOf(tempScript.key)),
                "AttributeError")

\* a read of a property of GcodeInjector
InjectorRead(op, result) ==
    /\ last' = [Called(op, 0, result.error # "", {}) EXCEPT !.returned = result.value]
    /\ metadata_writes' = NoWrites
    /\ UNCHANGED <<script_list, host_selected_script_index, loaded_scripts,
                   application_stack, global_container_stack, metaData,
                   injection_scripts, selected_injection_index, main_window_connected,
                   restore_connected, host_restore_connected>>

ReadSelectedInjectionName == InjectorRead("selectedInjectionName", selectedInjectionName)
ReadSelectedDefinitionId == InjectorRead("selectedDefinitionId", selectedDefinitionId)
ReadSelectedStackId == InjectorRead("selectedStackId", selectedStackId)

\* a read of a property of PostProcessingGui
GuiRead(op, result) ==
    /\ gui_last' = [op |-> op, raised |-> result.error # "", returned |-> result.value]
    /\ UNCHANGED <<script_table, json_script_table, selected_script_index, tempScript,
                   gui_global_container_stack, gui_metaData, gui_main_window_connected,
                   saved_script, application_stack>>

ReadGuiSelectedDefinitionId == GuiRead("selectedDefinitionId", GuiSelectedDefinitionId)
ReadGuiSelectedStackId == GuiRead("selectedStackId", GuiSelectedStackId)

\* both plugins constructed, the main window not yet there; the host has
\* loaded its scripts, none of them or some of them with a JSON overlay
IdsInit ==
    /\ script_list = <<>>
    /\ host_selected_script_index = -1
    /\ loaded_scripts \in LoadedScripts \cup {<<"PauseAtHeight">>}
    /\ application_stack = "Stack"
    /\ metaData = NoMetaData
    /\ global_container_stack = "None"
    /\ injection_scripts = <<>>
    /\ selected_injection_index = 0
    /\ main_window_connected = TRUE
    /\ last = NotCalled
    /\ restore_connected = FALSE
    /\ host_restore_connected = TRUE
    /\ metadata_writes = NoWrites
    /\ json_script_table = <<TableEntry("InsertGcodeAtLayer"), TableEntry("SwapFilament")>>
    /\ script_table = <<>>
    /\ selected_script_index = 0
    /\ tempScript = NoScript
    /\ gui_global_container_stack = "None"
    /\ gui_metaData = NoEntry
    /\ gui_main_window_connected = TRUE
    /\ gui_last = GuiCalled("init", FALSE)
    /\ saved_script = NothingSaved
    /\ active_scripts_model = Returned(<<>>)
    /\ active_injections_model = Returned(<<>>)

(***************************************************************************)
(* Specifications                                                          *)
(***************************************************************************)
vars ==
    <<escVars, enumVars, execVars, overlayVars, modelVars, injectorVars, guiVars,
      panelVars, writeVars>>

ApplicationIdle == application_stack = "None"

EscapeInit ==
    /\ EscInit
    /\ EnumIdle
    /\ ExecIdle
    /\ OverlayIdle
    /\ ModelsIdle
    /\ InjectorIdle
    /\ GuiIdle
    /\ PanelIdle
    /\ WriteIdle
    /\ ApplicationIdle

EscNext ==
    \/ SaveEscaped /\ UNCHANGED <<enumVars, execVars, overlayVars, modelVars, injectorVars, guiVars, panelVars, writeVars>>
    \/ RestoreUnescaped
       /\ UNCHANGED <<enumVars, execVars, overlayVars, modelVars, injectorVars, guiVars, panelVars, writeVars>>

SpecEscape == EscapeInit /\ [][EscNext]_vars

EnumerateInit ==
    /\ EnumInit
    /\ EscIdle
    /\ ExecIdle
    /\ OverlayIdle
    /\ ModelsIdle
    /\ InjectorIdle
    /\ GuiIdle
    /\ PanelIdle
    /\ WriteIdle
    /\ ApplicationIdle

EnumNext ==
    Enumerate /\ UNCHANGED <<escVars, execVars, overlayVars, modelVars, injectorVars, guiVars, panelVars, writeVars>>

SpecEnumerate == EnumerateInit /\ [][EnumNext]_vars

ExecuteInit ==
    /\ ExecInit
    /\ EscIdle
    /\ OverlayIdle
    /\ ModelsIdle
    /\ InjectorIdle
    /\ GuiIdle
    /\ PanelIdle
    /\ WriteIdle
    /\ ApplicationIdle

ExecNext == Execute /\ UNCHANGED <<escVars, overlayVars, modelVars, injectorVars, guiVars, panelVars, writeVars>>

SpecExecute == ExecuteInit /\ [][ExecNext]_vars

LoadInit ==
    /\ OverlayInit
    /\ EscIdle
    /\ EnumIdle
    /\ ExecIdle
    /\ ModelsIdle
    /\ InjectorIdle
    /\ GuiIdle
    /\ PanelIdle
    /\ WriteIdle
    /\ ApplicationIdle

OverlayNext ==
    LoadOverlay /\ UNCHANGED <<escVars, enumVars, execVars, modelVars, injectorVars, guiVars, panelVars, writeVars>>

SpecOverlay == LoadInit /\ [][OverlayNext]_vars

ReadInit ==
    /\ ModelsInit
    /\ EscIdle
    /\ EnumIdle
    /\ ExecIdle
    /\ OverlayIdle
    /\ InjectorIdle
    /\ GuiIdle
    /\ PanelIdle
    /\ WriteIdle
    /\ ApplicationIdle

ModelsNext ==
    ReadActiveModels
    /\ UNCHANGED <<escVars, enumVars, execVars, overlayVars, injectorVars, guiVars, panelVars, writeVars>>

SpecModels == ReadInit /\ [][ModelsNext]_vars

PanelInit ==
    /\ InjectionsInit
    /\ ViewsIdle
    /\ EscIdle
    /\ EnumIdle
    /\ ExecIdle
    /\ OverlayIdle
    /\ GuiIdle
    /\ PanelIdle
    /\ WriteIdle

InjectionsNext ==
    \/ \E layer_number \in 1..MaxInjectionLayer :
           /\ AddInjection(layer_number)
           /\ UNCHANGED <<escVars, enumVars, execVars, overlayVars, script_table,
                          active_scripts_model, active_injections_model, guiVars, panelVars, writeVars>>
    \/ \E layer_number \in 1..MaxInjectionLayer :
           /\ RemoveInjection(layer_number)
           /\ UNCHANGED <<escVars, enumVars, execVars, overlayVars, script_table,
                          active_scripts_model, active_injections_model, guiVars, panelVars, writeVars>>
    \/ \E index \in 0..Len(injection_scripts) :
           /\ SetSelectedInjectionIndex(index)
           /\ UNCHANGED <<escVars, enumVars, execVars, overlayVars, script_table,
                          active_scripts_model, active_injections_model, guiVars, panelVars, writeVars>>
    \/ /\ SaveInjectionScriptSettings
       /\ UNCHANGED <<escVars, enumVars, execVars, overlayVars, script_table,
                      active_scripts_model, active_injections_model, guiVars, panelVars, writeVars>>

SpecInjections == PanelInit /\ [][InjectionsNext]_vars

StartInit ==
    /\ SelectionInit
    /\ ViewsIdle
    /\ EscIdle
    /\ EnumIdle
    /\ ExecIdle
    /\ OverlayIdle
    /\ GuiIdle
    /\ PanelIdle
    /\ WriteIdle

SelectionNext ==
    \/ OnMainWindowChanged
       /\ UNCHANGED <<escVars, enumVars, execVars, overlayVars, script_table,
                      active_scripts_model, active_injections_model, guiVars, panelVars, writeVars>>
    \/ \E index \in -1..Len(injection_scripts) :
           /\ ~main_window_connected
           /\ SetSelectedInjectionIndex(index)
           /\ UNCHANGED <<escVars, enumVars, execVars, overlayVars, script_table,
                          active_scripts_model, active_injections_model, guiVars, panelVars, writeVars>>
    \/ /\ ~main_window_connected
       /\ SaveInjectionScriptSettings
       /\ UNCHANGED <<escVars, enumVars, execVars, overlayVars, script_table,
                      active_scripts_model, active_injections_model, guiVars, panelVars, writeVars>>
    \/ RestoreInjectionScripts
       /\ UNCHANGED <<escVars, enumVars, execVars, overlayVars, script_table,
                      active_scripts_model, active_injections_model, guiVars, panelVars, writeVars>>

SpecSelection == StartInit /\ [][SelectionNext]_vars

GuiStartInit ==
    /\ GuiInit /\ EscIdle /\ EnumIdle /\ ExecIdle /\ OverlayIdle /\ InjectorIdle
    /\ PanelIdle
    /\ WriteIdle
    /\ script_list = <<>>
    /\ active_scripts_model = Returned(<<>>)
    /\ active_injections_model = Returned(<<>>)

GuiNext ==
    \/ GuiConstruct
       /\ UNCHANGED <<escVars, enumVars, execVars, overlayVars, script_list,
                      active_scripts_model, active_injections_model,
                      host_selected_script_index, loaded_scripts,
                      global_container_stack, metaData, injection_scripts,
                      selected_injection_index, main_window_connected, last, connVars, panelVars, writeVars>>
    \/ \E current_layer \in 0..MaxCurrentLayer :
           /\ GuiOnMainWindowChanged(current_layer)
           /\ UNCHANGED <<escVars, enumVars, execVars, overlayVars, script_list,
                          active_scripts_model, active_injections_model,
                          host_selected_script_index, loaded_scripts,
                          global_container_stack, metaData, injection_scripts,
                          selected_injection_index, main_window_connected, last, connVars, panelVars, writeVars>>
    \/ \E index \in -1..Len(script_table), current_layer \in 0..MaxCurrentLayer :
           /\ SetSelectedScriptIndex(index, current_layer)
           /\ UNCHANGED <<escVars, enumVars, execVars, overlayVars, script_list,
                          active_scripts_model, active_injections_model,
                          host_selected_script_index, loaded_scripts,
                          global_container_stack, metaData, injection_scripts,
                          selected_injection_index, main_window_connected, last, connVars, panelVars, writeVars>>
    \/ SavePluginSettings
       /\ UNCHANGED <<escVars, enumVars, execVars, overlayVars, script_list,
                      active_scripts_model, active_injections_model,
                      host_selected_script_index, loaded_scripts,
                      global_container_stack, metaData, injection_scripts,
                      selected_injection_index, main_window_connected, last, connVars, panelVars, writeVars>>

SpecGui == GuiStartInit /\ [][GuiNext]_vars

PreviewStartInit ==
    /\ PreviewInit
    /\ WriteIdle
    /\ EscIdle
    /\ EnumIdle
    /\ ExecIdle
    /\ OverlayIdle

PreviewNext ==
    \/ \E view \in {"SolidView", "SimulationView"} :
           /\ ActiveViewChanged(view)
           /\ UNCHANGED <<escVars, enumVars, execVars, overlayVars, modelVars,
                          injectorVars, guiVars, writeVars>>
    \/ \E state \in BOOLEAN :
           /\ ActivityChanged(state)
           /\ UNCHANGED <<escVars, enumVars, execVars, overlayVars, modelVars,
                          injectorVars, guiVars, writeVars>>
    \/ \E layer \in 0..MaxCurrentLayer :
           /\ LayerChanged(layer)
           /\ UNCHANGED <<escVars, enumVars, execVars, overlayVars, modelVars,
                          injectorVars, guiVars, writeVars>>
    \/ \E index \in -1..(Len(script_table) - 1) :
           /\ SelectScript(index)
           /\ UNCHANGED <<escVars, enumVars, execVars, overlayVars, script_list,
                          active_scripts_model, active_injections_model,
                          host_selected_script_index, loaded_scripts,
                          global_container_stack, metaData, injection_scripts,
                          selected_injection_index, main_window_connected, last, connVars, writeVars>>
    \/ OnAddScriptButtonLeftClicked
       /\ UNCHANGED <<escVars, enumVars, execVars, overlayVars,
                      active_scripts_model, active_injections_model,
                      loaded_scripts, global_container_stack, metaData,
                      injection_scripts, selected_injection_index,
                      main_window_connected, last, connVars, writeVars>>
    \/ AddScript
       /\ UNCHANGED <<escVars, enumVars, execVars, overlayVars,
                      active_scripts_model, active_injections_model,
                      loaded_scripts, global_container_stack, metaData,
                      injection_scripts, selected_injection_index,
                      main_window_connected, last, connVars, writeVars>>
    \/ \E p \in 1..Len(activeScriptsModel.entries) :
           /\ RemoveScript(activeScriptsModel.entries[p].script_index)
           /\ UNCHANGED <<escVars, enumVars, execVars, overlayVars,
                          active_scripts_model, active_injections_model,
                          loaded_scripts, global_container_stack, metaData,
                          injection_scripts, selected_injection_index,
                          main_window_connected, last, connVars, writeVars>>
    \/ \E p \in 1..Len(activeScriptsModel.entries) :
           /\ OnActiveScriptButtonLeftClicked(activeScriptsModel.entries[p].layer_number[2])
           /\ UNCHANGED <<escVars, enumVars, execVars, overlayVars, modelVars,
                          injectorVars, guiVars, writeVars>>

SpecPreview == PreviewStartInit /\ [][PreviewNext]_vars

StackInit ==
    /\ SelectionInit
    /\ ViewsIdle
    /\ EscIdle
    /\ EnumIdle
    /\ ExecIdle
    /\ OverlayIdle
    /\ GuiIdle
    /\ PanelIdle
    /\ WriteIdle

StackNext ==
    \/ OnMainWindowChanged
       /\ UNCHANGED <<escVars, enumVars, execVars, overlayVars, script_table,
                      active_scripts_model, active_injections_model, guiVars, panelVars, writeVars>>
    \/ GuiOnMainWindowChanged(current_layer_num)
       /\ UNCHANGED <<escVars, enumVars, execVars, overlayVars, script_list,
                      active_scripts_model, active_injections_model,
                      host_selected_script_index, loaded_scripts,
                      global_container_stack, metaData, injection_scripts,
                      selected_injection_index, main_window_connected, last, connVars, panelVars, writeVars>>
    \/ \E index \in 0..(Len(injection_scripts) - 1) :
           /\ ~main_window_connected
           /\ SetSelectedInjectionIndex(index)
           /\ UNCHANGED <<escVars, enumVars, execVars, overlayVars, script_table,
                          active_scripts_model, active_injections_model, guiVars, panelVars, writeVars>>
    \/ /\ ~main_window_connected
       /\ SaveInjectionScriptSettings
       /\ UNCHANGED <<escVars, enumVars, execVars, overlayVars, script_table,
                      active_scripts_model, active_injections_model, guiVars, panelVars, writeVars>>
    \/ \E stack \in {"None", "Stack", "Stack2"} :
           /\ GlobalContainerStackChanged(stack)
           /\ UNCHANGED <<escVars, enumVars, execVars, overlayVars, modelVars, panelVars, writeVars>>

SpecStack == StackInit /\ [][StackNext]_vars

WriteStartInit ==
    /\ WriteInit
    /\ EscIdle
    /\ OverlayIdle
    /\ InjectorIdle
    /\ GuiIdle
    /\ PanelIdle
    /\ ApplicationIdle

WriteNext ==
    \/ OnWriteStarted
       /\ UNCHANGED <<escVars, yielded, enumPc, execVars, overlayVars,
                      active_scripts_model, active_injections_model,
                      injectorVars, guiVars, panelVars>>
    \/ ExecuteScripts
       /\ UNCHANGED <<escVars, yielded, enumPc, execScript, execPc, overlayVars,
                      active_scripts_model, active_injections_model,
                      injectorVars, guiVars, panelVars>>

SpecWrite == WriteStartInit /\ [][WriteNext]_vars

ActiveStartInit ==
    /\ ActiveInit
    /\ EscIdle
    /\ EnumIdle
    /\ ExecIdle
    /\ OverlayIdle
    /\ InjectorIdle
    /\ GuiIdle
    /\ PanelIdle
    /\ WriteIdle
    /\ ApplicationIdle

ActiveNext ==
    ReadActiveModels
    /\ UNCHANGED <<escVars, enumVars, execVars, overlayVars, injectorVars, guiVars, panelVars, writeVars>>

SpecActive == ActiveStartInit /\ [][ActiveNext]_vars

LayerlessStartInit ==
    /\ LayerlessInit
    /\ EscIdle
    /\ EnumIdle
    /\ ExecIdle
    /\ OverlayIdle
    /\ InjectorIdle
    /\ GuiIdle
    /\ PanelIdle
    /\ WriteIdle
    /\ ApplicationIdle

LayerlessNext ==
    ReadActiveModels
    /\ UNCHANGED <<escVars, enumVars, execVars, overlayVars, injectorVars, guiVars, panelVars, writeVars>>

SpecLayerless == LayerlessStartInit /\ [][LayerlessNext]_vars

ViewStartInit ==
    /\ ViewInit
    /\ EscIdle
    /\ EnumIdle
    /\ ExecIdle
    /\ OverlayIdle
    /\ ModelsIdle
    /\ InjectorIdle
    /\ GuiIdle
    /\ WriteIdle
    /\ ApplicationIdle

ViewNext ==
    \/ \E view \in ActiveViews :
           /\ ActiveViewChanged(view)
           /\ UNCHANGED <<escVars, enumVars, execVars, overlayVars, modelVars,
                          injectorVars, guiVars, writeVars>>
    \/ \E state \in BOOLEAN :
           /\ ActivityChanged(state)
           /\ UNCHANGED <<escVars, enumVars, execVars, overlayVars, modelVars,
                          injectorVars, guiVars, writeVars>>
    \/ \E layer \in 0..MaxCurrentLayer :
           /\ LayerChanged(layer)
           /\ UNCHANGED <<escVars, enumVars, execVars, overlayVars, modelVars,
                          injectorVars, guiVars, writeVars>>
    \/ ReadShowAddScriptButton
       /\ UNCHANGED <<escVars, enumVars, execVars, overlayVars, modelVars,
                      injectorVars, guiVars, writeVars>>
    \/ ReadCanAddInjections
       /\ UNCHANGED <<escVars, enumVars, execVars, overlayVars, modelVars,
                      injectorVars, guiVars, writeVars>>
    \/ ReadShowInjectionPanel
       /\ UNCHANGED <<escVars, enumVars, execVars, overlayVars, modelVars,
                      injectorVars, guiVars, writeVars>>

SpecView == ViewStartInit /\ [][ViewNext]_vars

IdsStartInit ==
    /\ IdsInit
    /\ EscIdle
    /\ EnumIdle
    /\ ExecIdle
    /\ OverlayIdle
    /\ PanelIdle
    /\ WriteIdle

IdsNext ==
    \/ OnMainWindowChanged
       /\ UNCHANGED <<escVars, enumVars, execVars, overlayVars, script_table,
                      active_scripts_model, active_injections_model, guiVars, panelVars, writeVars>>
    \/ GuiOnMainWindowChanged(current_layer_num)
       /\ UNCHANGED <<escVars, enumVars, execVars, overlayVars, script_list,
                      active_scripts_model, active_injections_model,
                      host_selected_script_index, loaded_scripts,
                      global_container_stack, metaData, injection_scripts,
                      selected_injection_index, main_window_connected, last,
                      connVars, panelVars, writeVars>>
    \/ \E index \in -1..Len(injection_scripts) :
           /\ SetSelectedInjectionIndex(index)
           /\ UNCHANGED <<escVars, enumVars, execVars, overlayVars, script_table,
                          active_scripts_model, active_injections_model, guiVars, panelVars, writeVars>>
    \/ ReadSelectedInjectionName
       /\ UNCHANGED <<escVars, enumVars, execVars, overlayVars, script_table,
                      active_scripts_model, active_injections_model, guiVars, panelVars, writeVars>>
    \/ ReadSelectedDefinitionId
       /\ UNCHANGED <<escVars, enumVars, execVars, overlayVars, script_table,
                      active_scripts_model, active_injections_model, guiVars, panelVars, writeVars>>
    \/ ReadSelectedStackId
       /\ UNCHANGED <<escVars, enumVars, execVars, overlayVars, script_table,
                      active_scripts_model, active_injections_model, guiVars, panelVars, writeVars>>
    \/ ReadGuiSelectedDefinitionId
       /\ UNCHANGED <<escVars, enumVars, execVars, overlayVars, script_list,
                      active_scripts_model, active_injections_model,
                      host_selected_script_index, loaded_scripts,
                      global_container_stack, metaData, injection_scripts,
                      selected_injection_index, main_window_connected, last,
                      connVars, panelVars, writeVars>>
    \/ ReadGuiSelectedStackId
       /\ UNCHANGED <<escVars, enumVars, execVars, overlayVars, script_list,
                      active_scripts_model, active_injections_model,
                      host_selected_script_index, loaded_scripts,
                      global_container_stack, metaData, injection_scripts,
                      selected_injection_index, main_window_connected, last,
                      connVars, panelVars, writeVars>>

SpecIds == IdsStartInit /\ [][IdsNext]_vars

(***************************************************************************)
(* Properties                                                              *)
(***************************************************************************)

\* C1: un-escaping the escaped settings text gives the settings text back.
EscapeRoundTrip == escPc = "restored" => restored = settings

\* every line of the gcode, clump after clump
RECURSIVE AllLines(_)
AllLines(g) == IF g = <<>> THEN <<>> ELSE SplitLines(Head(g)) \o AllLines(Tail(g))

\* the layer number in force at line i: 1 + the number of the last layer
\* line up to i, 0 when there is none
LayerInForce(lines, i) ==
    LET marks == {j \in 1..i : MatchLayerRegex(lines[j]).matched}
    IN  IF marks = {} THEN 0
        ELSE 1 + IntOfDigits(MatchLayerRegex(lines[CHOOSE j \in marks : \A k \in marks : k <= j]).group)

\* the positions of the elapsed-time lines, in order
RECURSIVE TimeLinePositions(_, _)
TimeLinePositions(lines, i) ==
    IF i > Len(lines) THEN <<>>
    ELSE (IF MatchElapsedRegex(lines[i]).matched THEN <<i>> ELSE <<>>)
         \o TimeLinePositions(lines, i + 1)

\* C2: the generator yields one (layer number, elapsed time) pair per
\* elapsed-time line, in gcode order, the layer number being 1 + the number of
\* the last layer line before it in the whole gcode (0 when there is none).
EnumerateYieldsPerTimeLine ==
    enumPc = "done" =>
        LET lines == AllLines(gcode)
            pos == TimeLinePositions(lines, 1)
        IN  /\ Len(yielded) = Len(pos)
            /\ \A k \in 1..Len(pos) :
                  yielded[k] = <<LayerInForce(lines, pos[k]),
                                 FloatOf(MatchElapsedRegex(lines[pos[k]]).group)>>

\* a layer line in one clump and the elapsed-time line in a later clump
EnumerateAcrossClumps ==
    /\ enumPc = "done"
    /\ Len(gcode) >= 2
    /\ \E k \in 1..Len(yielded) : yielded[k][1] = 2
    /\ ~ \E j \in 1..Len(SplitLines(gcode[Len(gcode)])) :
           MatchLayerRegex(SplitLines(gcode[Len(gcode)])[j]).matched
    /\ MatchElapsedRegex(SplitLines(gcode[Len(gcode)])[1]).matched

\* line is a ';LAYER:N' line whose N equals the setting value v
IsMarkerOf(line, v) ==
    /\ StartsWith(line, LAYER_PREFIX)
    /\ IntParse(Drop(line, Len(LAYER_PREFIX))).ok
    /\ IntValue(IntParse(Drop(line, Len(LAYER_PREFIX))).n) = v

MarkerLinesOf(text, v) ==
    {j \in 1..Len(SplitLines(text)) : IsMarkerOf(SplitLines(text)[j], v)}

Least(S) == CHOOSE j \in S : \A k \in S : j <= k

\* C3: execute changes at most one element of the gcode list: the first
\* element holding a marker line of the configured layer gets the script's
\* text as new line(s) right after its first marker line, the list length and
\* every other element stay; with no marker line the gcode is unchanged.
ExecuteChangesOneElement ==
    execPc = "done" =>
        LET v == execScript.settings.insert_layer_number
            holders == {e \in 1..Len(gcodeBefore) : MarkerLinesOf(gcodeBefore[e], v) # {}}
        IN  /\ Len(gcode) = Len(gcodeBefore)
            /\ holders = {} => gcode = gcodeBefore
            /\ holders # {} =>
                  LET e == Least(holders)
                      lines == SplitLines(gcodeBefore[e])
                      m == Least(MarkerLinesOf(gcodeBefore[e], v))
                  IN  /\ \A o \in 1..Len(gcode) : o # e => gcode[o] = gcodeBefore[o]
                      /\ gcode[e] = JoinLines(SubSeq(lines, 1, m))
                                    \o <<NL>> \o InsertedGcode(execScript)
                                    \o (IF m < Len(lines)
                                        THEN <<NL>> \o JoinLines(SubSeq(lines, m + 1, Len(lines)))
                                        ELSE <<>>)

\* execute has inserted into the first element, which holds the marker
\* twice, while the next element holds it too
ExecuteInsertedOnce ==
    /\ execPc = "done"
    /\ Len(gcode) = 2
    /\ gcode[1] # gcodeBefore[1]
    /\ Cardinality(MarkerLinesOf(gcodeBefore[1], execScript.settings.insert_layer_number)) = 2
    /\ MarkerLinesOf(gcodeBefore[2], execScript.settings.insert_layer_number) # {}

\* res is the merge of the mappings orig and over, as far as C4 states it
RECURSIVE IsMerge(_, _, _)
IsMerge(orig, over, res) ==
    /\ IsMapping(res)
    /\ DOMAIN orig.items \subseteq DOMAIN res.items
    /\ \A k \in DOMAIN over.items :
          /\ k \in DOMAIN res.items
          /\ ~ IsMapping(over.items[k]) => res.items[k] = over.items[k]
          /\ (IsMapping(over.items[k]) /\ k \in DOMAIN orig.items /\ IsMapping(orig.items[k]))
                => IsMerge(orig.items[k], over.items[k], res.items[k])
    /\ \A k \in DOMAIN orig.items \ DOMAIN over.items : res.items[k] = orig.items[k]

\* C4: what recursiveDictOverlay returns is the merge of the two mappings: a
\* key the overlay gives a non-mapping value has that value, a key both give a
\* mapping is the overlay of the two, a key of original alone keeps its value,
\* and no key of original is lost.
OverlayIsMerge ==
    (overlayPc = "done" /\ setting_data # Raised) => IsMerge(original, overlay, setting_data)

\* two nested mappings under the same key were merged, each with a key the
\* other lacks
OverlayMergedNested ==
    /\ overlayPc = "done"
    /\ setting_data # Raised
    /\ "a" \in DOMAIN original.items /\ "a" \in DOMAIN overlay.items
    /\ IsMapping(original.items["a"]) /\ IsMapping(overlay.items["a"])
    /\ DOMAIN original.items["a"].items = {"b"}
    /\ DOMAIN overlay.items["a"].items = {"a"}
    /\ DOMAIN setting_data.items["a"].items = {"a", "b"}

\* the number a layer_number value stands for, when it stands for one
IsNumber(v) == IntOf(v).ok
NumberOf(v) == IntOf(v).n

\* model lists its entries in ascending order of layer number
AscendingByLayer(model) ==
    \A p, q \in 1..Len(model) :
        (p < q /\ IsNumber(model[p].layer_number) /\ IsNumber(model[q].layer_number))
            => NumberOf(model[p].layer_number) <= NumberOf(model[q].layer_number)

\* C5: both models list their entries in ascending order of layer number,
\* whatever the host's script list holds, entries of one layer number in the
\* order of the script list.
ModelsOrderedByLayer ==
    /\ ~ active_scripts_model.raised
    /\ AscendingByLayer(active_scripts_model.entries)
    /\ \A p, q \in 1..Len(active_scripts_model.entries) :
          (/\ p < q
           /\ active_scripts_model.entries[p].layer_number
                 = active_scripts_model.entries[q].layer_number)
              => active_scripts_model.entries[p].script_index
                    <= active_scripts_model.entries[q].script_index
    /\ ~ active_injections_model.raised
    /\ AscendingByLayer(active_injections_model.entries)

\* the positions of the injections for layer_value in list
InjectionsFor(list, layer_value) ==
    {k \in 1..Len(list) : IsInjectionFor(list, k, layer_value)}

StoredInjectionIndexes ==
    IF INDEXES_ENTRY \notin metaData.keys \/ metaData.indexes = <<>> THEN <<>>
    ELSE ParsedIndexes(metaData.indexes).indexes

\* C8: after _addInjection and _removeInjection calls made with a global
\* container stack, the injection indexes entry of the metadata lists exactly
\* what injectionIndexes returns.
InjectionIndexesStored ==
    (last.op \in {"add", "remove"} /\ ~last.raised /\ global_container_stack # "None")
        => StoredInjectionIndexes = injectionIndexes

\* C9: with a stack and a selected index within availableInjectionNames,
\* _restoreInjectionScripts right after saveInjectionScriptSettings leaves
\* the selected index as it was; when the stored name is not an available
\* name, or none is stored, the index after a restore is 0.
SelectedInjectionKept ==
    /\ (/\ last.op = "restore"
        /\ last.prevOp = "save"
        /\ 0 <= last.indexBefore
        /\ last.indexBefore < Len(availableInjectionNames))
           => selected_injection_index = last.indexBefore
    /\ (/\ last.op \in {"restore", "mainWindowChanged"}
        /\ global_container_stack # "None"
        /\ \/ SELECTED_ENTRY \notin metaData.keys
           \/ \A k \in 1..Len(availableInjectionNames) :
                  availableInjectionNames[k] # metaData.selected)
           => selected_injection_index = 0

\* the second injection script was selected, saved and restored
SelectedInjectionRestored ==
    /\ last.op = "restore"
    /\ last.prevOp = "save"
    /\ last.indexBefore = 1
    /\ selected_injection_index = 1
    /\ Len(availableInjectionNames) = 2

\* C10: with a stack and the same script table, _loadPluginSettings after
\* savePluginSettings leaves _selected_script_index at the index that was
\* selected when the settings were saved, whichever index of the table it was.
SelectedScriptKept ==
    (/\ gui_last.op = "mainWindowChanged"
     /\ ~gui_last.raised
     /\ saved_script.saved
     /\ 0 <= saved_script.index
     /\ saved_script.index < Len(script_table))
        => selected_script_index = saved_script.index

\* C11: a script is added to the host's list only while a sliced model is
\* previewed: when addScript has put a script into the list,
\* showAddScriptButton was true at the moment of the call.
AddedOnlyInPreview ==
    (panel_last.op = "addScript" /\ panel_last.changed) => panel_last.can_add

\* C12: once a plugin has initialised, its _global_container_stack is the
\* application's global container stack, also after the application's
\* stack was changed.
StackFollowed ==
    /\ ~main_window_connected => global_container_stack = application_stack
    /\ ~gui_main_window_connected => gui_global_container_stack = application_stack

\* the layer numbers the generator yields for gcode g
YieldedLayers(g) ==
    {enumerateLayerElapsedTime(g)[i][1] : i \in 1..Len(enumerateLayerElapsedTime(g))}

\* C13: the message of a gcode write covers every active script: it has a
\* line naming the script of every entry of activeScriptsModel whose layer
\* number the generator yields for the gcode; with no active scripts or no
\* gcode no message is shown.
MessageCoversActiveScripts ==
    (write_pc = "estimated" /\ ~activeScriptsModel.raised) =>
        LET entries == activeScriptsModel.entries
        IN  IF entries = <<>> \/ ~gcode_present
            THEN ~message.shown
            ELSE /\ message.shown
                 /\ \A p \in 1..Len(entries) :
                        entries[p].layer_number[2] \in YieldedLayers(gcode)
                            => \E q \in 1..Len(message.lines) :
                                   message.lines[q].script_name = entries[p].script_name

\* the layer-number values of the injections of list, in list order
InjectionLayers(list) ==
    LET pos == InjectionPositionsFrom(list, 1)
    IN  [k \in 1..Len(pos) |-> getSettingValueByKey(list[pos[k]], list[pos[k]].layer_number_key)]

\* no two injections of list have the same layer number (values compared as
\* _addInjection compares them)
OnePerLayer(list) ==
    \A p, q \in 1..Len(InjectionLayers(list)) :
        p # q => InjectionLayers(list)[p] # InjectionLayers(list)[q]

Greatest(S) == CHOOSE j \in S : \A k \in S : k <= j

\* C15: the estimate agrees with what the script does: when the message of a
\* write reports a time for the one script of the host's list, configured at
\* layer number L, the script's execute on the same gcode has inserted its
\* text right after the first ';LAYER:L' line, and the reported total is the
\* time of the last ';TIME_ELAPSED:' line before that line.
EstimateAgreesWithExecute ==
    (write_pc = "done" /\ Len(script_list) = 1 /\ message.lines # <<>>) =>
        LET lines == AllLines(gcodeBefore)
            script == ExecutableScript(script_list[1])
            markers == {j \in 1..Len(lines) :
                           IsMarkerOf(lines[j], script.settings.insert_layer_number)}
        IN  /\ markers # {}
            /\ LET m == Least(markers)
                   times == {j \in 1..m : MatchElapsedRegex(lines[j]).matched}
               IN  /\ AllLines(gcode) =
                          Take(lines, m) \o SplitLines(InsertedGcode(script)) \o Drop(lines, m)
                   /\ times # {}
                   /\ message.lines[1].total =
                          FloatOf(MatchElapsedRegex(lines[Greatest(times)]).group)

\* C16: every operation that has changed the content of the host's script
\* list has emitted the host's scriptListChanged: _addInjection (append or
\* replace) and _removeInjection, and addScript and _removeScript.
ScriptListChangeSignalled ==
    /\ (last.op \in {"add", "remove"} /\ script_list # last.before)
           => "scriptListChanged" \in last.signals
    /\ (panel_last.op \in {"addScript", "removeScript"} /\ panel_last.changed)
           => "scriptListChanged" \in panel_last.signals

\* C17: the metadata writes of saveInjectionScriptSettings and of
\* _saveInjectionIndexes call neither _restoreInjectionScripts nor the host
\* plugin's handler, so the selected index is as before the save, and when
\* the call has returned both handlers are connected.
SavedWithoutHandlerCalls ==
    (last.op \in {"save", "add"} /\ ~last.raised /\ metadata_writes.writes > 0) =>
        /\ metadata_writes.restored = 0
        /\ metadata_writes.host_restored = 0
        /\ selected_injection_index = last.indexBefore
        /\ restore_connected
        /\ host_restore_connected

\* saveInjectionScriptSettings has written both its entries for the first
\* time: two initialising writes and two value writes
SavedWithInitialisingWrites ==
    /\ last.op = "save"
    /\ ~last.raised
    /\ metadata_writes.writes = 4
    /\ metaData.selected = "SwapFilament"

\* C18: addScript appends the pending script at the end of the host's list,
\* makes it the host's selected script and takes a new pending script: the
\* _tempScript object is never an element of the host's list, and
\* setSelectedScriptIndex and onAddScriptButtonLeftClicked leave the scripts
\* of the list as they are.
PendingScriptApart ==
    /\ temp_positions = {}
    /\ [][/\ temp_positions' = {}
          /\ Len(script_list') > Len(script_list)
                 => /\ script_list' = Append(script_list, ScriptOf(tempScript))
                    /\ host_selected_script_index' = Len(script_list') - 1
          /\ panel_last'.op \in {"select", "addScriptButton"}
                 => script_list' = script_list]_vars

\* after a script was added, the add-script button has given the pending
\* script of the same kind another layer number
PendingScriptChangedAfterAdd ==
    /\ panel_last.op = "addScriptButton"
    /\ script_list # <<>>
    /\ tempScript.key = script_list[Len(script_list)].key
    /\ tempScript.layer # script_list[Len(script_list)].settings.insert_layer_number

\* C19: layer numbers round-trip through the simulation view: the script
\* addScript has just added, its layer number set while the view showed
\* layer index v, is in activeScriptsModel with layer_number v + 1, the
\* button of that entry leads back to layer index v, and after
\* onActiveScriptButtonLeftClicked(layer_number) the view shows layer index
\* layer_number - 1.
LayerRoundTrip ==
    /\ (panel_last.op = "addScript" /\ panel_last.changed) =>
           \E p \in 1..Len(activeScriptsModel.entries) :
               LET entry == activeScriptsModel.entries[p]
               IN  /\ entry.script_index = Len(script_list) - 1
                   /\ entry.layer_number = IntValue(panel_last.layer + 1)
                   /\ LayerOfButton(entry.layer_number[2]) = panel_last.layer
    /\ panel_last.op = "activeScriptButton" => current_layer_num = panel_last.layer - 1

\* the button of a script added at layer index 1 has set the view to that layer
LayerRoundTripDone ==
    /\ panel_last.op = "activeScriptButton"
    /\ panel_last.layer = 2
    /\ current_layer_num = 1
    /\ \E p \in 1..Len(script_list) : script_list[p].settings.insert_layer_number = IntValue(2)

\* the value int() gives for a setting value it accepts
LayerNumberOf(value) == IF IsInt(value) THEN value[2] ELSE IntParse(value[2]).n

\* script i of the host's list and table entry t: the keys are equal, every
\* critical setting of t has its value in the script, and the script's layer
\* number setting is an int or text that reads as one
ScriptListed(i, t) ==
    LET script == script_list[i]
        script_data == script_table[t]
        value == getSettingValueByKey(script, script_data.layer_number_setting)
    IN  /\ script.key = script_data.script_key
        /\ \A k \in DOMAIN script_data.critical_settings :
              /\ k \in DOMAIN script.settings
              /\ script.settings[k] = script_data.critical_settings[k]
        /\ \/ IsInt(value)
           \/ IsStr(value) /\ IntParse(value[2]).ok

EntriesListed(model) ==
    LET pairs == {pair \in (1..Len(script_list)) \X (1..Len(script_table)) :
                     ScriptListed(pair[1], pair[2])}
    IN  /\ ~ model.raised
        /\ Len(model.entries) = Cardinality(pairs)
        /\ \A pair \in pairs : \E p \in 1..Len(model.entries) :
              model.entries[p] =
                 [script_key |-> script_table[pair[2]].script_key,
                  script_name |-> script_table[pair[2]].script_name,
                  layer_number |-> IntValue(LayerNumberOf(
                      getSettingValueByKey(script_list[pair[1]],
                                           script_table[pair[2]].layer_number_setting))),
                  script_index |-> pair[1] - 1]
        /\ \A p \in 1..Len(model.entries) :
              /\ model.entries[p].script_index \in 0..(Len(script_list) - 1)
              /\ script_list[model.entries[p].script_index + 1].key
                    = model.entries[p].script_key

\* C20: the model activeScriptsModel returns has one entry for each pair of a
\* script of the host's list and a script-table entry whose keys are equal,
\* whose critical settings all have their value in the script, and whose
\* layer number setting int() reads as an integer, and no other entry; every
\* entry's script_index is an index of the host's list, and the script there
\* has the entry's script_key.
ActiveEntriesExact == [][EntriesListed(active_scripts_model')]_vars

\* a model was read that lists a script under one name of the table while an
\* entry of the same key is left out for its critical setting, and another
\* script of a listed key is left out for its layer number
ActiveEntriesExactDone ==
    /\ Len(active_scripts_model.entries) > 0
    /\ \E i \in 1..Len(script_list), t \in 1..Len(script_table) :
          /\ script_list[i].key = script_table[t].script_key
          /\ script_list[i].settings[LAYER_SETTING] = IntValue(1)
          /\ ~ ScriptListed(i, t)
    /\ \E i \in 1..Len(script_list) :
          /\ script_list[i].settings[LAYER_SETTING] = StrValue(<<"x">>)
          /\ \A t \in 1..Len(script_table) : ~ ScriptListed(i, t)

\* what the generator yields for g at the layers that have an active script,
\* in the order of the gcode
MatchedMarkers(g, entries) ==
    SelectSeq(enumerateLayerElapsedTime(g),
              LAMBDA item : \E p \in 1..Len(entries) :
                               entries[p].layer_number = IntValue(item[1]))

LayerInterpretable(i) ==
    LET value == script_list[i].settings[LAYER_SETTING]
    IN  \/ IsInt(value)
        \/ IsStr(value) /\ IntParse(value[2]).ok

\* the model lists the scripts whose layer number can be interpreted as an
\* integer, and no other script
UsableScriptsListed(model) ==
    /\ ~ model.raised
    /\ \A i \in 1..Len(script_list) :
          LayerInterpretable(i)
             <=> \E p \in 1..Len(model.entries) : model.entries[p].script_index = i - 1

\* C22: activeScriptsModel leaves a script whose layer number setting cannot
\* be interpreted as an integer (text that is no number, or no value at all)
\* out of the model without an error, and still lists the other scripts.
UnusableScriptsLeftOut == [][UsableScriptsListed(active_scripts_model')]_vars

\* with a value in every layer number setting the getter returns: a script
\* whose setting holds text that int() rejects is left out and the others
\* are listed
TextLayersLeftOut ==
    [][(\A i \in 1..Len(script_list) : script_list[i].settings[LAYER_SETTING] # NoneValue)
          => UsableScriptsListed(active_scripts_model')]_vars

\* C23: showAddScriptButton, canAddInjections and showInjectionPanel never
\* raise; with no active view, or an active view without the activity query
\* (without a name, for showInjectionPanel), they return False; otherwise
\* showAddScriptButton and canAddInjections return the view's activity flag
\* and showInjectionPanel returns whether the view's name is
\* 'SimulationView'.
ViewPropertiesNeverRaise ==
    /\ panel_last.op \in {"showAddScriptButton", "canAddInjections"} =>
          /\ "raised" \notin panel_last.signals
          /\ panel_last.can_add =
                IF active_view \in {"None", "SolidView"} THEN FALSE ELSE activity
    /\ panel_last.op = "showInjectionPanel" =>
          /\ "raised" \notin panel_last.signals
          /\ panel_last.can_add =
                IF active_view \in {"None", "NamelessView"} THEN FALSE
                ELSE active_view = "SimulationView"

\* showAddScriptButton read with no active view
ViewPropertiesNeverRaiseDone ==
    /\ panel_last.op = "showAddScriptButton"
    /\ active_view = "None"
    /\ activity

\* the selected index is a position of availableInjectionNames
SelectedIsPosition ==
    selected_injection_index \in 0..(Len(availableInjectionNames) - 1)

\* C24: the selected-script identifiers fall back to the empty string
\* instead of failing: no read of selectedDefinitionId, selectedStackId or
\* selectedInjectionName raises; PostProcessingGui's identifiers are '' when
\* there is no temporary script, GcodeInjector's identifiers and
\* selectedInjectionName are '' when the selected index is not a position of
\* availableInjectionNames (no injection script being loaded, or the index
\* outside the list).
SelectedIdsFallBack ==
    /\ gui_last.op \in {"selectedDefinitionId", "selectedStackId"} =>
          /\ ~ gui_last.raised
          /\ tempScript = NoScript => gui_last.returned = EmptyString
    /\ last.op \in {"selectedDefinitionId", "selectedStackId", "selectedInjectionName"} =>
          /\ ~ last.raised
          /\ ~ SelectedIsPosition => last.returned = EmptyString

\* the part for PostProcessingGui and for selectedInjectionName at the
\* indexes Python takes for out of range: no read raises, and the fall-back
\* is the empty string
GuiIdsAndNameFallBack ==
    /\ gui_last.op \in {"selectedDefinitionId", "selectedStackId"} =>
          /\ ~ gui_last.raised
          /\ tempScript = NoScript => gui_last.returned = EmptyString
    /\ last.op = "selectedInjectionName" =>
          /\ ~ last.raised
          /\ ~ PyIndexOk(availableInjectionNames, selected_injection_index)
                => last.returned = EmptyString

====
